---- MODULE Spec2Model ----
(***************************************************************************)
(* Arcane Armory: the D&D item generator (dnd_item_gen.py, the theme-aware *)
(* program) and its AI-enhanced variant (dnd_item_gen_openai.py), over the *)
(* tables of data_tables.py.                                               *)
(*                                                                         *)
(* A Python str is the tuple of its characters, one one-character string   *)
(* each; a character outside printable ASCII is written by its code point  *)
(* ("U+1F525").  A Python value that may be something else than a str (an  *)
(* item field after the merge of a service response) is tagged: Str(s),    *)
(* None, List(l), Num(n).                                                  *)
(***************************************************************************)
EXTENDS Integers, Sequences, FiniteSets, TLC

VARIABLES
  prog,       \* the script that was started: "themed" or "openai"
  client,     \* _OPENAI_CLIENT is not None (set once, at import)
  apiKey,     \* os.getenv("OPENAI_API_KEY"): None or a str
  pc,         \* position of the process in its script
  line,       \* the line input() returned last
  item,       \* the item of the iteration in progress (a dict), or NoItem
  note,       \* the status string enhance_with_openai returned
  imageNote,  \* image_note of main
  imgPath,    \* img_path of main
  steps,      \* the I/O steps of the iteration in progress, in order
  cards,      \* cards displayed since the last line was read
  farewell,   \* the farewell printed, empty while none is
  uncaught,   \* the exception that ended the process, "" while none did
  exc,        \* the exception raised during the step just taken, "" if none
  fn,         \* pure-function runs: the function applied
  args,       \* its arguments
  ret         \* its outcome

vars == << prog, client, apiKey, pc, line, item, note, imageNote, imgPath,
           steps, cards, farewell, uncaught, exc, fn, args, ret >>

loopVars == << prog, client, apiKey, pc, line, item, note, imageNote,
               imgPath, steps, cards, farewell, uncaught, exc >>

callVars == << fn, args, ret >>

----------------------------------------------------------------------------
(* Bounds of the exploration *)

\* random.choice is explored over the first MaxDraw indices of its sequence
MaxDraw == 2

----------------------------------------------------------------------------
(* Python values *)

None == [t |-> "None"]
Str(s) == [t |-> "str", v |-> s]
List(l) == [t |-> "list", v |-> l]
Num(n) == [t |-> "int", v |-> n]

IsStr(x) == x.t = "str"

\* bool(x)
Truthy(x) ==
  CASE x.t = "None" -> FALSE
    [] x.t = "str"  -> x.v # << >>
    [] x.t = "list" -> x.v # << >>
    [] x.t = "int"  -> x.v # 0

\* a call either returns a value or raises
Return(v) == [raised |-> FALSE, value |-> v]
Raise(e) == [raised |-> TRUE, exc |-> e, msg |-> << >>]

\* the classes of the exceptions that occur, each with its base class
ExceptionBase ==
  [ KeyboardInterrupt |-> "BaseException",
    ImportError       |-> "Exception",
    NameError         |-> "Exception",
    EOFError          |-> "Exception",
    ValueError        |-> "Exception",
    AttributeError    |-> "Exception",
    TypeError         |-> "Exception",
    OSError           |-> "Exception",
    APIError          |-> "Exception" ]

\* `except cls:` catches e
Catches(cls, e) == e = cls \/ ExceptionBase[e] = cls \/ cls = "BaseException"

----------------------------------------------------------------------------
(* str helpers *)

Range(s) == { s[i] : i \in DOMAIN s }

Min(a, b) == IF a < b THEN a ELSE b

UpperAlpha ==
  << "A","B","C","D","E","F","G","H","I","J","K","L","M",
     "N","O","P","Q","R","S","T","U","V","W","X","Y","Z" >>
LowerAlpha ==
  << "a","b","c","d","e","f","g","h","i","j","k","l","m",
     "n","o","p","q","r","s","t","u","v","w","x","y","z" >>

ToLower == [ c \in Range(UpperAlpha) |->
               LowerAlpha[CHOOSE i \in DOMAIN UpperAlpha : UpperAlpha[i] = c] ]
ToUpper == [ c \in Range(LowerAlpha) |->
               UpperAlpha[CHOOSE i \in DOMAIN LowerAlpha : LowerAlpha[i] = c] ]

LowerChar(c) == IF c \in DOMAIN ToLower THEN ToLower[c] ELSE c

UpperChar(c) == IF c \in DOMAIN ToUpper THEN ToUpper[c] ELSE c

\* s.lower()
Lower(s) == [ i \in DOMAIN s |-> LowerChar(s[i]) ]

\* the characters str.strip() removes
Whitespace == { " ", "\t" }

RECURSIVE LStrip(_)
LStrip(s) ==
  IF s # << >> /\ Head(s) \in Whitespace THEN LStrip(Tail(s)) ELSE s

RECURSIVE RStrip(_)
RStrip(s) ==
  IF s # << >> /\ s[Len(s)] \in Whitespace
  THEN RStrip(SubSeq(s, 1, Len(s) - 1)) ELSE s

\* s.strip()
Strip(s) == RStrip(LStrip(s))

\* s.startswith(p)
StartsWith(s, p) == Len(p) <= Len(s) /\ SubSeq(s, 1, Len(p)) = p

\* w in text
Contains(text, w) ==
  \E i \in 1 .. (Len(text) - Len(w) + 1) :
    /\ text[i] = w[1]
    /\ SubSeq(text, i, i + Len(w) - 1) = w

\* sep.join(parts)
RECURSIVE Join(_, _)
Join(sep, parts) ==
  IF parts = << >> THEN << >>
  ELSE IF Len(parts) = 1 THEN parts[1]
  ELSE parts[1] \o sep \o Join(sep, Tail(parts))

----------------------------------------------------------------------------
(* data_tables.py *)

\* data_tables.py 9-16
RARITIES ==
  << <<"C","o","m","m","o","n">>,
     <<"U","n","c","o","m","m","o","n">>,
     <<"R","a","r","e">>,
     <<"V","e","r","y"," ","R","a","r","e">>,
     <<"L","e","g","e","n","d","a","r","y">>,
     <<"A","r","t","i","f","a","c","t">> >>

\* data_tables.py 18-49
ITEM_TYPES ==
  << <<"s","w","o","r","d">>,
     <<"d","a","g","g","e","r">>,
     <<"g","r","e","a","t","s","w","o","r","d">>,
     <<"l","o","n","g","b","o","w">>,
     <<"s","h","o","r","t","b","o","w">>,
     <<"w","a","r","h","a","m","m","e","r">>,
     <<"b","a","t","t","l","e","a","x","e">>,
     <<"m","a","c","e">>,
     <<"s","t","a","f","f">>,
     <<"w","a","n","d">>,
     <<"o","r","b">>,
     <<"s","h","i","e","l","d">>,
     <<"b","r","e","a","s","t","p","l","a","t","e">>,
     <<"l","e","a","t","h","e","r"," ","a","r","m","o","r">>,
     <<"c","l","o","a","k">>,
     <<"r","i","n","g">>,
     <<"a","m","u","l","e","t">>,
     <<"b","e","l","t">>,
     <<"b","o","o","t","s">>,
     <<"h","e","l","m">>,
     <<"g","a","u","n","t","l","e","t","s">>,
     <<"t","o","m","e">>,
     <<"i","n","s","t","r","u","m","e","n","t">>,
     <<"l","a","n","t","e","r","n">>,
     <<"m","a","u","l">>,
     <<"f","l","a","i","l">>,
     <<"c","h","a","k","r","a","m">>,
     <<"c","r","o","s","s","b","o","w">>,
     <<"s","p","e","l","l","b","o","o","k">> >>

\* data_tables.py 51-71
MATERIALS ==
  << <<"i","r","o","n">>,
     <<"s","t","e","e","l">>,
     <<"o","b","s","i","d","i","a","n">>,
     <<"m","i","t","h","r","a","l">>,
     <<"a","d","a","m","a","n","t","i","n","e">>,
     <<"d","r","a","g","o","n","b","o","n","e">>,
     <<"c","o","l","d"," ","i","r","o","n">>,
     <<"s","t","a","r"," ","m","e","t","a","l">>,
     <<"s","h","a","d","o","w","g","l","a","s","s">>,
     <<"c","r","y","s","t","a","l","l","i","n","e">>,
     <<"r","u","n","i","c"," ","s","t","o","n","e">>,
     <<"g","h","o","s","t","w","o","o","d">>,
     <<"m","o","o","n","s","t","e","e","l">>,
     <<"b","l","o","o","d","s","t","o","n","e">>,
     <<"v","o","i","d"," ","c","r","y","s","t","a","l">>,
     <<"s","u","n","f","o","r","g","e","d"," ","b","r","o","n","z","e">>,
     <<"e","l","d","r","i","t","c","h"," ","i","v","o","r","y">>,
     <<"w","y","r","m","s","c","a","l","e">> >>

\* data_tables.py 73-93
QUALITIES ==
  << <<"o","r","n","a","t","e">>,
     <<"r","u","n","e","d">>,
     <<"w","e","a","t","h","e","r","e","d">>,
     <<"g","l","e","a","m","i","n","g">>,
     <<"a","n","c","i","e","n","t">>,
     <<"c","e","r","e","m","o","n","i","a","l">>,
     <<"b","a","r","b","a","r","i","c">>,
     <<"e","l","e","g","a","n","t">>,
     <<"j","a","g","g","e","d">>,
     <<"e","t","c","h","e","d">>,
     <<"s","u","n","g","l","o","w">>,
     <<"f","r","o","s","t","b","i","t","t","e","n">>,
     <<"e","m","b","e","r","-","f","o","r","g","e","d">>,
     <<"s","a","i","n","t","l","y">>,
     <<"c","u","r","s","e","d">>,
     <<"p","r","i","s","m","a","t","i","c">>,
     <<"m","i","r","r","o","r","b","r","i","g","h","t">>,
     <<"r","o","o","t","b","o","u","n","d">> >>

\* data_tables.py 95-112
ENCHANTMENTS ==
  << <<"f","l","a","m","e","s"," ","d","a","n","c","e"," ","a","l","o","n","g"," ","i","t","s"," ","e","d","g","e"," ","U+1F525">>,
     <<"i","t"," ","h","u","m","s"," ","s","o","f","t","l","y"," ","w","h","e","n"," ","d","a","n","g","e","r"," ","i","s"," ","n","e","a","r">>,
     <<"i","t"," ","w","h","i","s","p","e","r","s"," ","t","h","e"," ","n","a","m","e","s"," ","o","f"," ","t","h","e"," ","d","e","a","d"," ","i","n"," ","a"," ","c","h","i","l","l","i","n","g"," ","m","u","r","m","u","r"," ","U+1F480">>,
     <<"i","t"," ","g","l","o","w","s"," ","f","a","i","n","t","l","y"," ","u","n","d","e","r"," ","t","h","e"," ","l","i","g","h","t"," ","o","f"," ","t","h","e"," ","m","o","o","n"," ","U+1F319">>,
     <<"i","t","s"," ","s","u","r","f","a","c","e"," ","d","r","i","n","k","s"," ","i","n"," ","s","u","r","r","o","u","n","d","i","n","g"," ","l","i","g","h","t">>,
     <<"i","t"," ","s","i","n","g","s"," ","i","n"," ","b","a","t","t","l","e"," ","w","i","t","h"," ","e","e","r","i","e"," ","h","a","r","m","o","n","y">>,
     <<"i","t"," ","b","e","n","d","s"," ","s","h","a","d","o","w","s"," ","a","r","o","u","n","d"," ","t","h","e"," ","w","i","e","l","d","e","r">>,
     <<"i","t"," ","c","r","a","c","k","l","e","s"," ","w","i","t","h"," ","l","a","t","e","n","t"," ","s","t","o","r","m"," ","e","n","e","r","g","y"," ","U+26A1">>,
     <<"i","t"," ","r","a","d","i","a","t","e","s"," ","a"," ","s","o","o","t","h","i","n","g"," ","w","a","r","m","t","h">>,
     <<"i","t"," ","l","e","a","v","e","s"," ","f","a","i","n","t"," ","s","p","e","c","t","r","a","l"," ","a","f","t","e","r","i","m","a","g","e","s"," ","w","h","e","n"," ","s","w","u","n","g">>,
     <<"t","i","n","y"," ","m","o","t","e","s"," ","o","f"," ","s","t","a","r","l","i","g","h","t"," ","d","r","i","f","t"," ","f","r","o","m"," ","i","t"," ","w","h","e","n"," ","d","r","a","w","n"," ","U+2728">>,
     <<"a"," ","f","a","i","n","t"," ","c","h","o","r","u","s"," ","o","f"," ","d","i","s","t","a","n","t"," ","v","o","i","c","e","s"," ","e","c","h","o","e","s"," ","i","n","s","i","d","e"," ","i","t">>,
     <<"i","t"," ","b","r","i","e","f","l","y"," ","r","e","v","e","a","l","s"," ","i","n","v","i","s","i","b","l","e"," ","r","u","n","e","s"," ","o","n"," ","n","e","a","r","b","y"," ","s","u","r","f","a","c","e","s">>,
     <<"i","t"," ","l","e","a","v","e","s"," ","b","e","h","i","n","d"," ","t","h","e"," ","s","c","e","n","t"," ","o","f"," ","r","a","i","n"," ","o","n"," ","s","t","o","n","e">>,
     <<"i","t","s"," ","r","e","f","l","e","c","t","i","o","n"," ","s","o","m","e","t","i","m","e","s"," ","m","o","v","e","s"," ","a"," ","h","e","a","r","t","b","e","a","t"," ","o","u","t"," ","o","f"," ","s","y","n","c">> >>

\* data_tables.py 114-131
ORIGINS ==
  << <<"f","o","r","g","e","d"," ","i","n"," ","t","h","e"," ","h","e","a","r","t"," ","o","f"," ","a"," ","d","y","i","n","g"," ","s","t","a","r">>,
     <<"c","r","a","f","t","e","d"," ","b","y"," ","a"," ","f","o","r","g","o","t","t","e","n"," ","a","r","c","h","m","a","g","e">>,
     <<"r","e","c","o","v","e","r","e","d"," ","f","r","o","m"," ","t","h","e"," ","d","e","p","t","h","s"," ","o","f"," ","a","n"," ","a","n","c","i","e","n","t"," ","r","u","i","n">>,
     <<"w","o","v","e","n"," ","f","r","o","m"," ","t","h","e"," ","d","r","e","a","m","s"," ","o","f"," ","s","l","e","e","p","i","n","g"," ","g","o","d","s">>,
     <<"h","a","m","m","e","r","e","d"," ","o","n"," ","a","n"," ","a","n","v","i","l"," ","o","f"," ","d","r","a","g","o","n","f","i","r","e">>,
     <<"b","l","e","s","s","e","d"," ","i","n"," ","t","h","e"," ","w","a","t","e","r","s"," ","o","f"," ","a"," ","s","a","c","r","e","d"," ","s","p","r","i","n","g">>,
     <<"s","t","o","l","e","n"," ","f","r","o","m"," ","t","h","e"," ","h","o","a","r","d"," ","o","f"," ","a"," ","j","e","a","l","o","u","s"," ","d","e","m","o","n">>,
     <<"f","o","u","n","d"," ","i","n"," ","t","h","e"," ","s","h","a","t","t","e","r","e","d"," ","v","a","u","l","t","s"," ","b","e","n","e","a","t","h"," ","a"," ","r","u","i","n","e","d"," ","c","i","t","y">>,
     <<"g","i","f","t","e","d"," ","b","y"," ","t","h","e"," ","f","e","y"," ","c","o","u","r","t","s"," ","a","t"," ","a"," ","t","e","r","r","i","b","l","e"," ","p","r","i","c","e">>,
     <<"s","a","l","v","a","g","e","d"," ","f","r","o","m"," ","t","h","e"," ","a","r","m","o","r"," ","o","f"," ","a"," ","f","a","l","l","e","n"," ","c","e","l","e","s","t","i","a","l">>,
     <<"p","i","e","c","e","d"," ","t","o","g","e","t","h","e","r"," ","f","r","o","m"," ","r","e","l","i","c","s"," ","s","c","a","t","t","e","r","e","d"," ","a","c","r","o","s","s"," ","a"," ","d","o","z","e","n"," ","b","a","t","t","l","e","f","i","e","l","d","s">>,
     <<"s","u","n","g"," ","i","n","t","o"," ","b","e","i","n","g"," ","b","y"," ","a"," ","c","i","r","c","l","e"," ","o","f"," ","d","r","u","i","d","s"," ","a","t"," ","s","o","l","s","t","i","c","e">>,
     <<"e","x","c","a","v","a","t","e","d"," ","f","r","o","m"," ","a"," ","m","e","t","e","o","r","i","t","e"," ","t","h","a","t"," ","n","e","v","e","r"," ","c","o","o","l","e","d">>,
     <<"t","r","a","d","e","d"," ","f","o","r"," ","a"," ","s","i","n","g","l","e"," ","w","h","i","s","p","e","r","e","d"," ","s","e","c","r","e","t"," ","i","n"," ","a"," ","m","i","d","n","i","g","h","t"," ","m","a","r","k","e","t">>,
     <<"r","e","c","o","v","e","r","e","d"," ","f","r","o","m"," ","a"," ","t","i","m","e","-","l","o","c","k","e","d"," ","v","a","u","l","t"," ","t","h","a","t"," ","s","h","o","u","l","d"," ","n","e","v","e","r"," ","h","a","v","e"," ","o","p","e","n","e","d">> >>

\* data_tables.py 133-150
QUIRKS ==
  << <<"o","c","c","a","s","i","o","n","a","l","l","y"," ","c","h","a","n","g","e","s"," ","w","e","i","g","h","t"," ","a","t"," ","r","a","n","d","o","m">>,
     <<"e","m","i","t","s"," ","t","h","e"," ","s","c","e","n","t"," ","o","f"," ","o","z","o","n","e"," ","w","h","e","n"," ","u","s","e","d">>,
     <<"c","a","u","s","e","s"," ","f","a","i","n","t"," ","s","p","e","c","t","r","a","l"," ","m","o","t","e","s"," ","t","o"," ","o","r","b","i","t"," ","t","h","e"," ","w","i","e","l","d","e","r">>,
     <<"s","o","m","e","t","i","m","e","s"," ","s","p","e","a","k","s"," ","i","n"," ","r","i","d","d","l","e","s"," ","o","n","l","y"," ","t","h","e"," ","w","i","e","l","d","e","r"," ","c","a","n"," ","h","e","a","r">>,
     <<"i","s"," ","i","n","v","i","s","i","b","l","e"," ","t","o"," ","a","n","y","o","n","e"," ","w","h","o"," ","h","a","s"," ","l","i","e","d"," ","i","n"," ","t","h","e"," ","l","a","s","t"," ","h","o","u","r">>,
     <<"r","e","f","u","s","e","s"," ","t","o"," ","b","e"," ","d","r","a","w","n"," ","a","g","a","i","n","s","t"," ","t","h","e"," ","i","n","n","o","c","e","n","t">>,
     <<"l","e","a","v","e","s"," ","f","o","o","t","p","r","i","n","t","s"," ","o","f"," ","l","i","g","h","t"," ","w","h","e","r","e","v","e","r"," ","i","t"," ","g","o","e","s">>,
     <<"c","a","u","s","e","s"," ","n","e","a","r","b","y"," ","c","a","n","d","l","e","s"," ","t","o"," ","b","u","r","n"," ","w","i","t","h"," ","c","o","l","o","r","e","d"," ","f","l","a","m","e","s"," ","U+1F56F","U+FE0F">>,
     <<"s","l","o","w","l","y"," ","r","e","p","a","i","r","s"," ","i","t","s","e","l","f"," ","f","r","o","m"," ","a","n","y"," ","d","a","m","a","g","e">>,
     <<"s","e","e","m","s"," ","s","l","i","g","h","t","l","y"," ","h","e","a","v","i","e","r"," ","i","n"," ","t","h","e"," ","p","r","e","s","e","n","c","e"," ","o","f"," ","d","r","a","g","o","n","s"," ","U+1F409">>,
     <<"o","c","c","a","s","i","o","n","a","l","l","y"," ","g","i","g","g","l","e","s"," ","s","o","f","t","l","y"," ","w","h","e","n"," ","n","o"," ","o","n","e"," ","i","s"," ","l","o","o","k","i","n","g">>,
     <<"c","a","s","t","s"," ","a"," ","s","h","a","d","o","w"," ","t","h","a","t"," ","s","o","m","e","t","i","m","e","s"," ","p","o","i","n","t","s"," ","i","n"," ","t","h","e"," ","w","r","o","n","g"," ","d","i","r","e","c","t","i","o","n">>,
     <<"r","i","n","g","s"," ","l","i","k","e"," ","c","r","y","s","t","a","l"," ","w","h","e","n"," ","l","i","e","s"," ","a","r","e"," ","s","p","o","k","e","n"," ","n","e","a","r","b","y">>,
     <<"a","t","t","r","a","c","t","s"," ","s","m","a","l","l"," ","h","a","r","m","l","e","s","s"," ","a","n","i","m","a","l","s"," ","t","h","a","t"," ","r","e","f","u","s","e"," ","t","o"," ","l","e","a","v","e">>,
     <<"i","t","s"," ","r","e","f","l","e","c","t","i","o","n"," ","i","s"," ","a","l","w","a","y","s"," ","a"," ","l","i","t","t","l","e"," ","o","l","d","e","r"," ","t","h","a","n"," ","r","e","a","l","i","t","y">> >>

\* data_tables.py 152-164
ATTUNEMENT_REQUIREMENTS ==
  << <<"A","t","t","u","n","e","m","e","n","t"," ","r","e","q","u","i","r","e","d"," ","b","y"," ","a"," ","s","p","e","l","l","c","a","s","t","e","r">>,
     <<"A","t","t","u","n","e","m","e","n","t"," ","r","e","q","u","i","r","e","d"," ","b","y"," ","a"," ","c","r","e","a","t","u","r","e"," ","o","f"," ","g","o","o","d"," ","a","l","i","g","n","m","e","n","t">>,
     <<"A","t","t","u","n","e","m","e","n","t"," ","r","e","q","u","i","r","e","d"," ","b","y"," ","a"," ","c","r","e","a","t","u","r","e"," ","o","f"," ","n","o","n","U+2011","l","a","w","f","u","l"," ","a","l","i","g","n","m","e","n","t">>,
     <<"A","t","t","u","n","e","m","e","n","t"," ","r","e","q","u","i","r","e","d"," ","b","y"," ","a"," ","p","r","o","f","i","c","i","e","n","t"," ","m","a","r","t","i","a","l"," ","w","e","a","p","o","n"," ","u","s","e","r">>,
     <<"N","o"," ","a","t","t","u","n","e","m","e","n","t"," ","r","e","q","u","i","r","e","d">>,
     <<"A","t","t","u","n","e","m","e","n","t"," ","r","e","q","u","i","r","e","d"," ","b","y"," ","a"," ","c","r","e","a","t","u","r","e"," ","w","h","o"," ","h","a","s"," ","s","l","a","i","n"," ","a"," ","d","r","a","g","o","n">>,
     <<"A","t","t","u","n","e","m","e","n","t"," ","r","e","q","u","i","r","e","d"," ","b","y"," ","a"," ","c","r","e","a","t","u","r","e"," ","p","r","o","f","i","c","i","e","n","t"," ","w","i","t","h"," ","h","e","a","v","y"," ","a","r","m","o","r">>,
     <<"A","t","t","u","n","e","m","e","n","t"," ","r","e","q","u","i","r","e","d"," ","b","y"," ","a"," ","b","a","r","d",","," ","c","l","e","r","i","c",","," ","o","r"," ","p","a","l","a","d","i","n">>,
     <<"A","t","t","u","n","e","m","e","n","t"," ","r","e","q","u","i","r","e","d"," ","b","y"," ","a"," ","c","r","e","a","t","u","r","e"," ","w","h","o"," ","h","a","s"," ","m","a","d","e"," ","a"," ","p","a","c","t"," ","w","i","t","h"," ","a"," ","p","a","t","r","o","n">>,
     <<"A","t","t","u","n","e","m","e","n","t"," ","r","e","q","u","i","r","e","d"," ","b","y"," ","a"," ","c","r","e","a","t","u","r","e"," ","b","e","a","r","i","n","g"," ","a"," ","n","o","t","a","b","l","e"," ","s","c","a","r">> >>

\* data_tables.py 166-184
MECHANICAL_EFFECTS ==
  << <<"+","1"," ","b","o","n","u","s"," ","t","o"," ","a","t","t","a","c","k"," ","a","n","d"," ","d","a","m","a","g","e"," ","r","o","l","l","s">>,
     <<"+","2"," ","b","o","n","u","s"," ","t","o"," ","A","C"," ","w","h","i","l","e"," ","w","o","r","n">>,
     <<"a","d","v","a","n","t","a","g","e"," ","o","n"," ","s","a","v","i","n","g"," ","t","h","r","o","w","s"," ","a","g","a","i","n","s","t"," ","b","e","i","n","g"," ","c","h","a","r","m","e","d">>,
     <<"r","e","s","i","s","t","a","n","c","e"," ","t","o"," ","f","i","r","e"," ","d","a","m","a","g","e">>,
     <<"r","e","s","i","s","t","a","n","c","e"," ","t","o"," ","c","o","l","d"," ","d","a","m","a","g","e">>,
     <<"r","e","s","i","s","t","a","n","c","e"," ","t","o"," ","n","e","c","r","o","t","i","c"," ","d","a","m","a","g","e">>,
     <<"y","o","u"," ","c","a","n"," ","c","a","s","t"," ","D","e","t","e","c","t"," ","M","a","g","i","c"," ","a","t"," ","w","i","l","l">>,
     <<"y","o","u"," ","c","a","n"," ","c","a","s","t"," ","M","i","s","t","y"," ","S","t","e","p"," ","o","n","c","e"," ","p","e","r"," ","s","h","o","r","t"," ","r","e","s","t">>,
     <<"y","o","u"," ","c","a","n"," ","s","p","e","a","k",","," ","r","e","a","d",","," ","a","n","d"," ","w","r","i","t","e"," ","D","r","a","c","o","n","i","c">>,
     <<"o","n","c","e"," ","p","e","r"," ","d","a","y",","," ","y","o","u"," ","c","a","n"," ","r","e","r","o","l","l"," ","a"," ","f","a","i","l","e","d"," ","a","t","t","a","c","k"," ","r","o","l","l">>,
     <<"y","o","u","r"," ","w","a","l","k","i","n","g"," ","s","p","e","e","d"," ","i","n","c","r","e","a","s","e","s"," ","b","y"," ","1","0"," ","f","t",".">>,
     <<"y","o","u"," ","g","a","i","n"," ","d","a","r","k","v","i","s","i","o","n"," ","o","u","t"," ","t","o"," ","6","0"," ","f","t",".">>,
     <<"o","n","c","e"," ","p","e","r"," ","l","o","n","g"," ","r","e","s","t",","," ","y","o","u"," ","c","a","n"," ","t","u","r","n"," ","i","n","v","i","s","i","b","l","e"," ","f","o","r"," ","1"," ","m","i","n","u","t","e">>,
     <<"y","o","u"," ","h","a","v","e"," ","a","d","v","a","n","t","a","g","e"," ","o","n"," ","I","n","i","t","i","a","t","i","v","e"," ","r","o","l","l","s">>,
     <<"y","o","u"," ","c","a","n"," ","b","r","e","a","t","h","e"," ","u","n","d","e","r","w","a","t","e","r">>,
     <<"y","o","u","r"," ","s","p","e","l","l"," ","s","a","v","e"," ","D","C"," ","f","o","r"," ","o","n","e"," ","c","l","a","s","s"," ","i","n","c","r","e","a","s","e","s"," ","b","y"," ","1">> >>

\* the names data_tables.py binds
DataTables ==
  [ RARITIES                |-> RARITIES,
    ITEM_TYPES              |-> ITEM_TYPES,
    MATERIALS               |-> MATERIALS,
    QUALITIES               |-> QUALITIES,
    ENCHANTMENTS            |-> ENCHANTMENTS,
    ORIGINS                 |-> ORIGINS,
    QUIRKS                  |-> QUIRKS,
    ATTUNEMENT_REQUIREMENTS |-> ATTUNEMENT_REQUIREMENTS,
    MECHANICAL_EFFECTS      |-> MECHANICAL_EFFECTS ]

\* `from data_tables import (...)` of each script
ImportedNames(p) ==
  IF p = "themed"
  THEN { "RARITIES", "ITEM_TYPES", "MATERIALS", "QUALITIES", "ENCHANTMENTS",
         "ORIGINS", "QUIRKS", "ATTUNEMENT_REQUIREMENTS", "MECHANICAL_EFFECTS",
         "THEMED_MECHANICAL_EFFECTS" }
  ELSE { "RARITIES", "ITEM_TYPES", "MATERIALS", "QUALITIES", "ENCHANTMENTS",
         "ORIGINS", "QUIRKS", "ATTUNEMENT_REQUIREMENTS", "MECHANICAL_EFFECTS" }

\* the import statement: ImportError on a name the module does not bind
FromDataTablesImport(names) ==
  IF names \subseteq DOMAIN DataTables THEN Return(None) ELSE Raise("ImportError")

\* reading a module-level table by name: NameError while nothing binds it
LoadGlobal(name) ==
  IF name \in DOMAIN DataTables THEN Return(DataTables[name]) ELSE Raise("NameError")

----------------------------------------------------------------------------
(* Name epithets and theme keywords (dnd_item_gen.py) *)

\* the epithets of build_item_name
EPITHETS ==
  << <<"t","h","e"," ","D","r","a","g","o","n","s","o","n","g">>,
     <<"t","h","e"," ","S","t","a","r","f","o","r","g","e","d">>,
     <<"t","h","e"," ","U","m","b","r","a","l"," ","E","d","g","e">>,
     <<"t","h","e"," ","D","a","w","n","b","r","e","a","k","e","r">>,
     <<"t","h","e"," ","S","o","u","l","b","o","u","n","d">>,
     <<"t","h","e"," ","D","r","e","a","m","w","e","a","v","e","r">>,
     <<"t","h","e"," ","G","r","a","v","e","w","h","i","s","p","e","r">>,
     <<"t","h","e"," ","S","t","o","r","m","c","a","l","l">>,
     <<"t","h","e"," ","N","i","g","h","t","'","s"," ","E","m","b","r","a","c","e">>,
     <<"t","h","e"," ","S","u","n","s","h","a","r","d">>,
     <<"t","h","e"," ","L","a","s","t"," ","O","a","t","h">>,
     <<"t","h","e"," ","S","i","l","e","n","t"," ","C","h","o","i","r">> >>

\* dnd_item_gen.py 171
FIRE_WORDS ==
  << <<"f","l","a","m","e">>,
     <<"f","i","r","e">>,
     <<"e","m","b","e","r">>,
     <<"a","s","h">>,
     <<"i","n","f","e","r","n","o">>,
     <<"l","a","v","a">>,
     <<"s","c","o","r","c","h">>,
     <<"b","u","r","n">>,
     <<"s","u","n">> >>

\* dnd_item_gen.py 173
COLD_WORDS ==
  << <<"f","r","o","s","t">>,
     <<"i","c","e">>,
     <<"i","c","y">>,
     <<"c","o","l","d">>,
     <<"w","i","n","t","e","r">>,
     <<"s","n","o","w">> >>

\* dnd_item_gen.py 175
SHADOW_WORDS ==
  << <<"s","h","a","d","o","w">>,
     <<"n","i","g","h","t">>,
     <<"d","a","r","k">>,
     <<"g","l","o","o","m">>,
     <<"u","m","b","r","a","l">>,
     <<"v","o","i","d">>,
     <<"s","h","a","d","e">>,
     <<"g","h","o","s","t">>,
     <<"s","p","e","c","t","r","a","l">> >>

\* dnd_item_gen.py 177
STORM_WORDS ==
  << <<"s","t","o","r","m">>,
     <<"l","i","g","h","t","n","i","n","g">>,
     <<"t","h","u","n","d","e","r">>,
     <<"t","e","m","p","e","s","t">>,
     <<"s","q","u","a","l","l">> >>

\* dnd_item_gen.py 179
FEY_WORDS ==
  << <<"v","i","n","e">>,
     <<"r","o","o","t">>,
     <<"m","o","s","s">>,
     <<"l","e","a","f">>,
     <<"p","e","t","a","l">>,
     <<"f","o","r","e","s","t">>,
     <<"d","r","u","i","d">>,
     <<"b","e","a","s","t">>,
     <<"a","n","i","m","a","l">>,
     <<"n","a","t","u","r","e">>,
     <<"w","o","o","d">>,
     <<"f","e","y">> >>

\* dnd_item_gen.py 181
RADIANT_WORDS ==
  << <<"h","o","l","y">>,
     <<"d","i","v","i","n","e">>,
     <<"r","a","d","i","a","n","t">>,
     <<"s","a","i","n","t">>,
     <<"a","n","g","e","l">>,
     <<"c","e","l","e","s","t","i","a","l">>,
     <<"b","l","e","s","s","e","d">>,
     <<"h","a","l","l","o","w","e","d">> >>

\* dnd_item_gen.py 183
NECROTIC_WORDS ==
  << <<"b","l","o","o","d">>,
     <<"b","o","n","e">>,
     <<"g","r","a","v","e">>,
     <<"d","e","a","t","h">>,
     <<"c","o","r","p","s","e">>,
     <<"s","k","u","l","l">>,
     <<"n","e","c","r","o","t","i","c">>,
     <<"w","i","t","h","e","r">> >>

\* dnd_item_gen.py 185
ARCANE_WORDS ==
  << <<"a","r","c","a","n","e">>,
     <<"s","p","e","l","l">>,
     <<"w","i","z","a","r","d">>,
     <<"m","a","g","e">>,
     <<"r","u","n","e">>,
     <<"s","i","g","i","l">>,
     <<"g","l","y","p","h">>,
     <<"s","c","r","o","l","l">>,
     <<"t","o","m","e">> >>

----------------------------------------------------------------------------
(* ANSI styles and rarity styles (the same in both scripts) *)

RESET          == << "ESC", "[", "0", "m" >>
BOLD           == << "ESC", "[", "1", "m" >>
DIM            == << "ESC", "[", "2", "m" >>
BRIGHT_BLACK   == << "ESC", "[", "9", "0", "m" >>
BRIGHT_RED     == << "ESC", "[", "9", "1", "m" >>
BRIGHT_GREEN   == << "ESC", "[", "9", "2", "m" >>
BRIGHT_YELLOW  == << "ESC", "[", "9", "3", "m" >>
BRIGHT_BLUE    == << "ESC", "[", "9", "4", "m" >>
BRIGHT_MAGENTA == << "ESC", "[", "9", "5", "m" >>
BRIGHT_CYAN    == << "ESC", "[", "9", "6", "m" >>
BRIGHT_WHITE   == << "ESC", "[", "9", "7", "m" >>

\* color(text, *styles), styles given as a tuple
color(text, styles) == Join(<< >>, styles) \o text \o RESET

\* RARITY_STYLES.get(rarity_name, {"color": BRIGHT_WHITE, "emoji": sparkles})
RarityStyle(rarity_name) ==
  CASE rarity_name = RARITIES[1] -> [color |-> BRIGHT_BLACK,   emoji |-> << "U+26AA" >>]
    [] rarity_name = RARITIES[2] -> [color |-> BRIGHT_GREEN,   emoji |-> << "U+1F7E2" >>]
    [] rarity_name = RARITIES[3] -> [color |-> BRIGHT_BLUE,    emoji |-> << "U+1F535" >>]
    [] rarity_name = RARITIES[4] -> [color |-> BRIGHT_MAGENTA, emoji |-> << "U+1F7E3" >>]
    [] rarity_name = RARITIES[5] -> [color |-> BRIGHT_YELLOW,  emoji |-> << "U+1F7E1" >>]
    [] rarity_name = RARITIES[6] -> [color |-> BRIGHT_RED,     emoji |-> << "U+1F534" >>]
    [] OTHER                     -> [color |-> BRIGHT_WHITE,   emoji |-> << "U+2728" >>]

----------------------------------------------------------------------------
(* Item assembly *)

\* the indices random.choice(seq) is explored over
Draws(seq) == 1 .. Min(Len(seq), MaxDraw)

\* random.choice(seq), r the index drawn
Choice(seq, r) == seq[r]

IsAlpha(c) == c \in Range(UpperAlpha) \cup Range(LowerAlpha)

\* s.title(): a letter after a non-letter is upper-cased, any other lower-cased
Title(s) ==
  [ i \in DOMAIN s |->
      IF i = 1 \/ ~IsAlpha(s[i - 1]) THEN UpperChar(s[i]) ELSE LowerChar(s[i]) ]

SP == << " " >>

\* build_item_name with the material before the quality in the descriptive name
build_item_name_material_first(rarity_name, material, quality, item_type, named, r) ==
  IF named
  THEN LET epithet == Choice(EPITHETS, r)
           base    == Title(quality) \o SP \o Title(item_type)
       IN  base \o << " ", "o", "f", " " >> \o epithet
  ELSE rarity_name \o SP \o material \o SP \o quality \o SP \o item_type

\* build_item_name; named is random.random() < 0.4, r the epithet drawn
build_item_name(rarity_name, material, quality, item_type, named, r) ==
  IF named
  THEN LET epithet == Choice(EPITHETS, r)
           base    == Title(quality) \o SP \o Title(item_type)
       IN  base \o << " ", "o", "f", " " >> \o epithet
  ELSE rarity_name \o SP \o quality \o SP \o material \o SP \o item_type

\* x or ""
OrEmpty(x) == IF Truthy(x) THEN x.v ELSE << >>

\* any(w in text for w in words)
AnyIn(words, text) == \E k \in DOMAIN words : Contains(text, words[k])

\* infer_theme with the cold keywords tested before the fire keywords
infer_theme_cold_first(material, quality, enchantment) ==
  LET text == Lower(Join(SP, << OrEmpty(material), OrEmpty(quality),
                               OrEmpty(enchantment) >>))
  IN  IF AnyIn(COLD_WORDS, text) THEN "cold"
      ELSE IF AnyIn(FIRE_WORDS, text) THEN "fire"
      ELSE IF AnyIn(SHADOW_WORDS, text) THEN "shadow"
      ELSE IF AnyIn(STORM_WORDS, text) THEN "storm"
      ELSE IF AnyIn(FEY_WORDS, text) THEN "fey"
      ELSE IF AnyIn(RADIANT_WORDS, text) THEN "radiant"
      ELSE IF AnyIn(NECROTIC_WORDS, text) THEN "necrotic"
      ELSE IF AnyIn(ARCANE_WORDS, text) THEN "arcane"
      ELSE "generic"

\* infer_theme; the arguments are Python values
infer_theme(material, quality, enchantment) ==
  LET text == Lower(Join(SP, << OrEmpty(material), OrEmpty(quality),
                               OrEmpty(enchantment) >>))
  IN  IF AnyIn(FIRE_WORDS, text) THEN "fire"
      ELSE IF AnyIn(COLD_WORDS, text) THEN "cold"
      ELSE IF AnyIn(SHADOW_WORDS, text) THEN "shadow"
      ELSE IF AnyIn(STORM_WORDS, text) THEN "storm"
      ELSE IF AnyIn(FEY_WORDS, text) THEN "fey"
      ELSE IF AnyIn(RADIANT_WORDS, text) THEN "radiant"
      ELSE IF AnyIn(NECROTIC_WORDS, text) THEN "necrotic"
      ELSE IF AnyIn(ARCANE_WORDS, text) THEN "arcane"
      ELSE "generic"

\* d.get(key, default) of a dict d
DictGet(d, key, default) == IF key \in DOMAIN d THEN d[key] ELSE default

\* the index a draw r of the random source selects in seq
Index(seq, r) == ((r - 1) % Len(seq)) + 1

\* pick_mechanical_effect; r is the draw of random.choice
pick_mechanical_effect(material, quality, enchantment, r) ==
  LET theme  == infer_theme(material, quality, enchantment)
      themed == LoadGlobal("THEMED_MECHANICAL_EFFECTS")
  IN  IF themed.raised THEN themed
      ELSE LET themed_pool == DictGet(themed.value, theme, << >>)
           IN  IF themed_pool # << >>
               THEN Return(Choice(themed_pool, Index(themed_pool, r)))
               ELSE Return(Choice(MECHANICAL_EFFECTS, Index(MECHANICAL_EFFECTS, r)))

\* the draws of one assembly: an index per table, the naming style, the epithet
DrawVectors ==
  [ rarity : Draws(RARITIES), type : Draws(ITEM_TYPES),
    material : Draws(MATERIALS), quality : Draws(QUALITIES),
    enchantment : Draws(ENCHANTMENTS), origin : Draws(ORIGINS),
    quirk : Draws(QUIRKS), attune : Draws(ATTUNEMENT_REQUIREMENTS),
    effect : Draws(MECHANICAL_EFFECTS), named : BOOLEAN,
    epithet : Draws(EPITHETS) ]

\* the dict both assemblers return
ItemDict(rarity_name, item_type, material, quality, enchantment, origin, quirk, attune, effect, name) ==
  [ name         |-> Str(name),
    rarity_name  |-> Str(rarity_name),
    rarity_color |-> Str(RarityStyle(rarity_name).color),
    rarity_emoji |-> Str(RarityStyle(rarity_name).emoji),
    type         |-> Str(item_type),
    material     |-> Str(material),
    quality      |-> Str(quality),
    enchantment  |-> Str(enchantment),
    origin       |-> Str(origin),
    quirk        |-> Str(quirk),
    attune       |-> Str(attune),
    effect       |-> Str(effect) ]

\* generate_item of dnd_item_gen.py (theme-aware); d the draws
generate_item(d) ==
  LET rarity_name == Choice(RARITIES, d.rarity)
      item_type   == Choice(ITEM_TYPES, d.type)
      material    == Choice(MATERIALS, d.material)
      quality     == Choice(QUALITIES, d.quality)
      enchantment == Choice(ENCHANTMENTS, d.enchantment)
      origin      == Choice(ORIGINS, d.origin)
      quirk       == Choice(QUIRKS, d.quirk)
      attune      == Choice(ATTUNEMENT_REQUIREMENTS, d.attune)
      effect      == pick_mechanical_effect(Str(material), Str(quality),
                                            Str(enchantment), d.effect)
  IN  IF effect.raised THEN effect
      ELSE Return(ItemDict(rarity_name, item_type, material, quality,
                           enchantment, origin, quirk, attune, effect.value,
                           build_item_name(rarity_name, material, quality,
                                           item_type, d.named, d.epithet)))

\* generate_base_item with the quirk drawn from ORIGINS
generate_base_item_quirk_from_origins(d) ==
  LET rarity_name == Choice(RARITIES, d.rarity)
      item_type   == Choice(ITEM_TYPES, d.type)
      material    == Choice(MATERIALS, d.material)
      quality     == Choice(QUALITIES, d.quality)
      enchantment == Choice(ENCHANTMENTS, d.enchantment)
      origin      == Choice(ORIGINS, d.origin)
      quirk       == Choice(ORIGINS, d.quirk)
      attune      == Choice(ATTUNEMENT_REQUIREMENTS, d.attune)
      effect      == Choice(MECHANICAL_EFFECTS, d.effect)
  IN  ItemDict(rarity_name, item_type, material, quality, enchantment,
               origin, quirk, attune, effect,
               build_item_name(rarity_name, material, quality, item_type,
                               d.named, d.epithet))

\* generate_base_item of dnd_item_gen_openai.py (non-themed); d the draws
generate_base_item(d) ==
  LET rarity_name == Choice(RARITIES, d.rarity)
      item_type   == Choice(ITEM_TYPES, d.type)
      material    == Choice(MATERIALS, d.material)
      quality     == Choice(QUALITIES, d.quality)
      enchantment == Choice(ENCHANTMENTS, d.enchantment)
      origin      == Choice(ORIGINS, d.origin)
      quirk       == Choice(QUIRKS, d.quirk)
      attune      == Choice(ATTUNEMENT_REQUIREMENTS, d.attune)
      effect      == Choice(MECHANICAL_EFFECTS, d.effect)
  IN  ItemDict(rarity_name, item_type, material, quality, enchantment,
               origin, quirk, attune, effect,
               build_item_name(rarity_name, material, quality, item_type,
                               d.named, d.epithet))

----------------------------------------------------------------------------
(* Messages of the two scripts *)

\* dnd_item_gen_openai.py 241
NotConfiguredNote ==
  <<"U+1F512"," ","O","p","e","n","A","I"," ","n","o","t"," ","c","o","n",
     "f","i","g","u","r","e","d",";"," ","s","h","o","w","i","n","g"," ",
     "b","a","s","e"," ","g","e","n","e","r","a","t","o","r"," ","o","u",
     "t","p","u","t",".">>

\* dnd_item_gen_openai.py 288
EnhancedNote ==
  <<"U+1F916"," ","g","p","t","-","5",".","1"," ","e","n","h","a","n","c",
     "e","m","e","n","t"," ","a","p","p","l","i","e","d",".">>

\* dnd_item_gen_openai.py 294
EnhanceFailedPrefix ==
  <<"U+26A0","U+FE0F"," ","O","p","e","n","A","I"," ","e","n","h","a","n",
     "c","e","m","e","n","t"," ","f","a","i","l","e","d",":"," ">>

\* dnd_item_gen_openai.py 305
ImageNotConfiguredNote ==
  <<"U+1F5BC","U+FE0F"," ","O","p","e","n","A","I"," ","n","o","t"," ","c",
     "o","n","f","i","g","u","r","e","d",";"," ","n","o"," ","i","m","a",
     "g","e"," ","g","e","n","e","r","a","t","e","d",".">>

\* dnd_item_gen_openai.py 325
ImageGeneratedNote ==
  <<"U+1F9D9"," ","I","t","e","m"," ","a","r","t"," ","g","e","n","e","r",
     "a","t","e","d"," ","v","i","a"," ","g","p","t","-","i","m","a","g",
     "e","-","1",".">>

\* dnd_item_gen_openai.py 327
ImageFailedPrefix ==
  <<"U+26A0","U+FE0F"," ","I","m","a","g","e"," ","g","e","n","e","r","a",
     "t","i","o","n"," ","f","a","i","l","e","d",":"," ">>

\* dnd_item_gen.py 303
QuitFarewellThemed ==
  <<"M","a","y"," ","y","o","u","r"," ","l","o","o","t"," ","b","e"," ","e",
     "v","e","r"," ","s","h","i","n","y","."," ","F","a","r","e","w","e",
     "l","l","!"," ","U+1FA99","U+2728">>

\* dnd_item_gen_openai.py 526
QuitFarewellOpenAI ==
  <<"M","a","y"," ","y","o","u","r"," ","l","o","o","t"," ","b","e"," ","e",
     "v","e","r"," ","s","h","i","n","y","."," ","F","a","r","e","w","e",
     "l","l","!"," ","U+1F9F5","U+2728">>

\* dnd_item_gen.py 324, dnd_item_gen_openai.py 567
InterruptFarewell ==
  <<"I","n","t","e","r","r","u","p","t","e","d"," ","b","y"," ","u","s","e",
     "r","."," ","M","a","y"," ","y","o","u","r"," ","d","i","c","e"," ",
     "r","o","l","l"," ","h","i","g","h","!"," ","U+1F3B2">>

----------------------------------------------------------------------------
(* The AI enhancement collaborator (dnd_item_gen_openai.py) *)

\* an exception raised with the text str(e) gives
RaiseMsg(e, m) == [raised |-> TRUE, exc |-> e, msg |-> m]

\* str(e) of a raised outcome
MsgOf(r) == IF "msg" \in DOMAIN r THEN r.msg ELSE << >>

\* d[key] = value on a dict d
DictSet(d, key, value) == (key :> value) @@ d

\* d.setdefault(key, value) on a dict d
DictSetDefault(d, key, value) == IF key \in DOMAIN d THEN d ELSE (key :> value) @@ d

\* a parsed JSON object
Dict(d) == [t |-> "dict", v |-> d]

\* a response content that is the JSON text of the value v
Json(v) == [t |-> "json", v |-> v]

\* json.loads(content): TypeError on None, JSONDecodeError (a ValueError) on
\* text that is no JSON
json_loads(content) ==
  CASE content.t = "None" -> RaiseMsg("TypeError", << "N", "o", "n", "e" >>)
    [] content.t = "json" -> Return(content.v)
    [] OTHER              -> RaiseMsg("ValueError", << "E", "x", "p", "e", "c", "t" >>)

\* data.get(key, default): AttributeError unless data is a dict
DataGet(data, key, default) ==
  IF data.t = "dict" THEN Return(DictGet(data.v, key, default))
  ELSE RaiseMsg("AttributeError", << "g", "e", "t" >>)

\* _OPENAI_CLIENT is None or not os.getenv("OPENAI_API_KEY")
NotConfigured(cl, key) == ~cl \/ ~Truthy(key)

\* the try block of enhance_with_openai; o is what the remote call does:
\* it raises, or it returns a response with a content.  A merged item comes
\* with its note.
EnhanceTry(it, o) ==
  IF o.kind = "raises" THEN RaiseMsg(o.exc, o.msg)
  ELSE LET data == json_loads(o.content)
       IN  IF data.raised THEN data
           ELSE LET name == DataGet(data.value, "name", it.name)
                    lore == DataGet(data.value, "enhanced_lore", None)
                    quirk == DataGet(data.value, "enhanced_quirk", None)
                    mech == DataGet(data.value, "mechanical_note", None)
                IN  IF name.raised THEN name
                    ELSE Return([ item |->
                                    DictSet(DictSet(DictSet(DictSet(it,
                                      "name", name.value),
                                      "enhanced_lore", lore.value),
                                      "enhanced_quirk", quirk.value),
                                      "mechanical_note", mech.value),
                                  note |-> EnhancedNote ])

\* enhance_with_openai with a handler that catches every exception
enhance_with_openai_bare_except(it, cl, key, o) ==
  IF NotConfigured(cl, key)
  THEN Return([item |-> it, note |-> NotConfiguredNote, called |-> FALSE])
  ELSE LET r == EnhanceTry(it, o)
       IN  IF ~r.raised
           THEN Return([item |-> r.value.item, note |-> r.value.note, called |-> TRUE])
           ELSE Return([ item |-> DictSetDefault(it, "mechanical_note", Str(<< >>)),
                         note |-> EnhanceFailedPrefix \o MsgOf(r),
                         called |-> TRUE ])

\* enhance_with_openai with the merge of the response moved into the handler
enhance_with_openai_merge_on_failure(it, cl, key, o) ==
  IF NotConfigured(cl, key)
  THEN Return([item |-> it, note |-> NotConfiguredNote, called |-> FALSE])
  ELSE LET r == EnhanceTry(it, o)
       IN  IF ~r.raised
           THEN Return([item |-> r.value.item, note |-> r.value.note, called |-> TRUE])
           ELSE IF Catches("Exception", r.exc)
           THEN Return([ item |-> DictSet(it, "name", None),
                         note |-> EnhanceFailedPrefix \o MsgOf(r),
                         called |-> TRUE ])
           ELSE r

\* enhance_with_openai that calls the service before it looks at the configuration
enhance_with_openai_call_first(it, cl, key, o) ==
  IF NotConfigured(cl, key)
  THEN Return([ item |-> DictSetDefault(it, "mechanical_note", Str(<< >>)),
                note |-> NotConfiguredNote, called |-> TRUE ])
  ELSE LET r == EnhanceTry(it, o)
       IN  IF ~r.raised
           THEN Return([item |-> r.value.item, note |-> r.value.note, called |-> TRUE])
           ELSE IF Catches("Exception", r.exc)
           THEN Return([ item |-> DictSetDefault(it, "mechanical_note", Str(<< >>)),
                         note |-> EnhanceFailedPrefix \o MsgOf(r),
                         called |-> TRUE ])
           ELSE r

\* enhance_with_openai(item): the item and the note returned, and whether the
\* remote call was made; cl and key are the configuration, o the remote outcome
enhance_with_openai(it, cl, key, o) ==
  IF NotConfigured(cl, key)
  THEN Return([item |-> it, note |-> NotConfiguredNote, called |-> FALSE])
  ELSE LET r == EnhanceTry(it, o)
       IN  IF ~r.raised
           THEN Return([item |-> r.value.item, note |-> r.value.note, called |-> TRUE])
           ELSE IF Catches("Exception", r.exc)
           THEN Return([ item |-> DictSetDefault(it, "mechanical_note", Str(<< >>)),
                         note |-> EnhanceFailedPrefix \o MsgOf(r),
                         called |-> TRUE ])
           ELSE r

\* generate_item_image(item): the data and the status returned, and whether
\* the remote call was made
generate_item_image(it, cl, key, o) ==
  IF NotConfigured(cl, key)
  THEN Return([b64 |-> None, status |-> ImageNotConfiguredNote, called |-> FALSE])
  ELSE IF o.kind = "raises"
       THEN IF Catches("Exception", o.exc)
            THEN Return([ b64 |-> None, status |-> ImageFailedPrefix \o o.msg,
                          called |-> TRUE ])
            ELSE RaiseMsg(o.exc, o.msg)
       ELSE Return([b64 |-> o.b64, status |-> ImageGeneratedNote, called |-> TRUE])

\* the decimal digits of a natural number
RECURSIVE DigitsOf(_)
DigitsOf(n) ==
  LET d == << "0", "1", "2", "3", "4", "5", "6", "7", "8", "9" >>[(n % 10) + 1]
  IN  IF n < 10 THEN << d >> ELSE DigitsOf(n \div 10) \o << d >>

Digits == { "0", "1", "2", "3", "4", "5", "6", "7", "8", "9" }

\* c.isalnum()
IsAlnum(c) == IsAlpha(c) \/ c \in Digits

\* the slug of save_image_to_file: at most SlugLen characters
SlugLen == 40

Slug(name) ==
  LET s == [ i \in DOMAIN name |-> IF IsAlnum(name[i]) THEN LowerChar(name[i]) ELSE "_" ]
  IN  SubSeq(s, 1, Min(Len(s), SlugLen))

\* save_image_to_file(b64_png, item_name): the path, or None on failure; o is
\* what creating the directory and writing the file do
save_image_to_file(b64_png, item_name, o) ==
  IF o # "ok"
  THEN IF Catches("Exception", o) THEN Return(None) ELSE Raise(o)
  ELSE LET name == IF Truthy(item_name) THEN item_name
                   ELSE Str(<< "i", "t", "e", "m" >>)
       IN  IF ~IsStr(name) THEN Return(None)
           ELSE Return(Str(<< "i", "m", "a", "g", "e", "s", "/" >> \o Slug(name.v)
                             \o << ".", "p", "n", "g" >>))

\* target_h of show_image_if_supported while DNDGEN_IMG_HEIGHT is unset
DefaultHeight == 350

\* f"{base}_h{target_height}{ext}" for a path that ends in a 4-character extension
ResizedPath(p) ==
  SubSeq(p, 1, Len(p) - 4) \o << "_", "h" >> \o DigitsOf(DefaultHeight)
    \o SubSeq(p, Len(p) - 3, Len(p))

\* resize_image_to_height(img_path): the path to display and whether
\* `convert` was spawned; o is what Pillow and ImageMagick do
resize_image_to_height(img_path, o) ==
  CASE o = "pillow_small"    -> Return([path |-> img_path, spawned |-> FALSE])
    [] o = "pillow_resized"  -> Return([path |-> Str(ResizedPath(img_path.v)),
                                        spawned |-> FALSE])
    [] o = "convert_resized" -> Return([path |-> Str(ResizedPath(img_path.v)),
                                        spawned |-> TRUE])
    [] o = "convert_failed"  -> Return([path |-> img_path, spawned |-> TRUE])
    [] o = "no_tool"         -> Return([path |-> img_path, spawned |-> FALSE])
    [] o = "interrupted"     -> Raise("KeyboardInterrupt")

\* show_image_if_supported that runs img2sixel before the image is resized
show_image_if_supported_display_first(img_path, o) ==
  IF o.no_inline THEN Return([shown |-> FALSE, spawned |-> << >>])
  ELSE IF ~o.img2sixel THEN Return([shown |-> FALSE, spawned |-> << >>])
  ELSE LET r == resize_image_to_height(img_path, o.resize)
       IN  IF r.raised THEN r
           ELSE LET after == IF r.value.spawned THEN << "convert" >> ELSE << >>
                IN  IF o.run = "ok"
                    THEN Return([shown |-> TRUE, spawned |-> << "img2sixel" >> \o after])
                    ELSE IF Catches("Exception", o.run)
                    THEN Return([shown |-> FALSE, spawned |-> << "img2sixel" >> \o after])
                    ELSE Raise(o.run)

\* show_image_if_supported(img_path): whether inline display was attempted,
\* and the subprocesses spawned, in order
show_image_if_supported(img_path, o) ==
  IF o.no_inline THEN Return([shown |-> FALSE, spawned |-> << >>])
  ELSE IF ~o.img2sixel THEN Return([shown |-> FALSE, spawned |-> << >>])
  ELSE LET r == resize_image_to_height(img_path, o.resize)
       IN  IF r.raised THEN r
           ELSE LET before == IF r.value.spawned THEN << "convert" >> ELSE << >>
                IN  IF o.run = "ok"
                    THEN Return([shown |-> TRUE, spawned |-> before \o << "img2sixel" >>])
                    ELSE IF Catches("Exception", o.run)
                    THEN Return([shown |-> FALSE, spawned |-> before \o << "img2sixel" >>])
                    ELSE Raise(o.run)

----------------------------------------------------------------------------
(* Card rendering (dnd_item_gen_openai.py) *)

\* TextWrapper(width=70)
WrapWidth == 70

\* chunk.strip() == ''
IsBlank(chunk) == \A i \in DOMAIN chunk : chunk[i] \in Whitespace

\* textwrap splits after the hyphen at i: two letters (or letter, hyphen,
\* letter) before it, and a letter, an optional hyphen and a letter after it
HyphenBreak(s, i) ==
  /\ s[i] = "-"
  /\ i >= 3
  /\ IsAlpha(s[i - 1])
  /\ \/ IsAlpha(s[i - 2])
     \/ (s[i - 2] = "-" /\ i >= 4 /\ IsAlpha(s[i - 3]))
  /\ i + 2 <= Len(s)
  /\ IsAlpha(s[i + 1])
  /\ \/ IsAlpha(s[i + 2])
     \/ (s[i + 2] = "-" /\ i + 3 <= Len(s) /\ IsAlpha(s[i + 3]))

\* a chunk of s ends at i: the text ends, whitespace meets a word, or a
\* hyphenated word may break
ChunkEnd(s, i) ==
  \/ i = Len(s)
  \/ (s[i] \in Whitespace) # (s[i + 1] \in Whitespace)
  \/ HyphenBreak(s, i)

\* TextWrapper._split: the chunks of s from index i on
RECURSIVE SplitChunks(_, _)
SplitChunks(s, i) ==
  IF i > Len(s) THEN << >>
  ELSE LET e == CHOOSE k \in i .. Len(s) :
                  ChunkEnd(s, k) /\ \A j \in i .. (k - 1) : ~ChunkEnd(s, j)
       IN  << SubSeq(s, i, e) >> \o SplitChunks(s, e + 1)

\* the chunks that fit a line that holds cur already, and the chunks left
RECURSIVE FillLine(_, _, _)
FillLine(chunks, cur, cur_len) ==
  IF chunks # << >> /\ cur_len + Len(chunks[1]) <= WrapWidth
  THEN FillLine(Tail(chunks), Append(cur, chunks[1]), cur_len + Len(chunks[1]))
  ELSE [line |-> cur, len |-> cur_len, rest |-> chunks]

\* TextWrapper._handle_long_word: a chunk wider than the line is cut to the
\* room the line has left, one character at least
HandleLongWord(f) ==
  IF f.rest # << >> /\ Len(f.rest[1]) > WrapWidth
  THEN LET space_left == IF WrapWidth - f.len < 1 THEN 1 ELSE WrapWidth - f.len
           chunk == f.rest[1]
       IN  [ line |-> Append(f.line, SubSeq(chunk, 1, space_left)),
             rest |-> << SubSeq(chunk, space_left + 1, Len(chunk)) >> \o Tail(f.rest) ]
  ELSE [line |-> f.line, rest |-> f.rest]

\* TextWrapper._wrap_chunks: lines are filled greedily; a blank chunk is
\* dropped at the start of every line but the first and at the end of every line
RECURSIVE WrapChunks(_, _)
WrapChunks(chunks, lines) ==
  IF chunks = << >> THEN lines
  ELSE LET start == IF IsBlank(chunks[1]) /\ lines # << >> THEN Tail(chunks) ELSE chunks
           g     == HandleLongWord(FillLine(start, << >>, 0))
           cur   == IF g.line # << >> /\ IsBlank(g.line[Len(g.line)])
                    THEN SubSeq(g.line, 1, Len(g.line) - 1) ELSE g.line
       IN  WrapChunks(g.rest, IF cur # << >> THEN Append(lines, Join(<< >>, cur))
                              ELSE lines)

\* wrapper.wrap(text): AttributeError (no expandtabs) unless text is a str
wrap(text) ==
  IF IsStr(text) THEN Return(WrapChunks(SplitChunks(text.v, 1), << >>))
  ELSE RaiseMsg("AttributeError", << "e", "x", "p", "a", "n", "d", "t", "a", "b", "s" >>)

\* str(x) of a str, None or a natural number
StrOf(x) ==
  CASE x.t = "str"  -> x.v
    [] x.t = "None" -> << "N", "o", "n", "e" >>
    [] x.t = "int"  -> DigitsOf(x.v)

\* dnd_item_gen_openai.py 446
TYPE_LABEL ==
  <<"T","y","p","e",":"," ">>

\* dnd_item_gen_openai.py 449
RARITY_LABEL ==
  <<"R","a","r","i","t","y",":"," ">>

\* dnd_item_gen_openai.py 451
MECHANIC_LABEL ==
  <<"M","e","c","h","a","n","i","c",":"," ">>

\* dnd_item_gen_openai.py 452
ATTUNEMENT_LABEL ==
  <<"A","t","t","u","n","e","m","e","n","t",":"," ">>

\* dnd_item_gen_openai.py 463
FORGED_ORIGIN ==
  <<"F","o","r","g","e","d"," ","o","r","i","g","i","n",":"," ">>

\* dnd_item_gen_openai.py 464
ITS_MAGIC ==
  <<"I","t","s"," ","m","a","g","i","c"," ","i","s"," ","s","u","c","h"," ",
     "t","h","a","t"," ">>

\* dnd_item_gen_openai.py 470
QUIRK_LABEL ==
  <<"Q","u","i","r","k",":"," ">>

\* dnd_item_gen_openai.py 488
LORE_HEADER ==
  <<"U+1F4DD"," ","L","o","r","e",":">>

\* dnd_item_gen_openai.py 491
ODDITIES_HEADER ==
  <<"U+2728"," ","O","d","d","i","t","i","e","s",":">>

\* dnd_item_gen_openai.py 496
GM_NOTE_HEADER ==
  <<"U+2696","U+FE0F"," ","G","M"," ","N","o","t","e",":">>

\* dnd_item_gen_openai.py 542
SAVED_TO ==
  <<" ","S","a","v","e","d"," ","t","o"," ">>

\* render_item_card(item, enhancement_note) of dnd_item_gen_openai.py, whose
\* framed_block returns the lines as they are
render_item_card(it, enhancement_note) ==
  LET rarity_str == StrOf(it.rarity_emoji) \o SP \o StrOf(it.rarity_name)
      rarity_str_colored == color(rarity_str, << it.rarity_color.v, BOLD >>)
      name_str == color(StrOf(it.name), << BRIGHT_YELLOW, BOLD >>)
      type_line == color(TYPE_LABEL, << BRIGHT_CYAN, BOLD >>)
                     \o StrOf(it.quality) \o SP \o StrOf(it.material) \o SP \o StrOf(it.type)
      rarity_line == color(RARITY_LABEL, << BRIGHT_CYAN, BOLD >>) \o rarity_str_colored
      mech_line == color(MECHANIC_LABEL, << BRIGHT_CYAN, BOLD >>) \o it.effect.v
      attune_line == color(ATTUNEMENT_LABEL, << BRIGHT_CYAN, BOLD >>) \o it.attune.v
      enh_lore == DictGet(it, "enhanced_lore", None)
      enh_quirk == DictGet(it, "enhanced_quirk", None)
      lore_text == IF Truthy(enh_lore) THEN enh_lore
                   ELSE Str(FORGED_ORIGIN \o StrOf(it.origin) \o << ".", " " >>
                              \o ITS_MAGIC \o StrOf(it.enchantment) \o << "." >>)
      quirk_text == IF Truthy(enh_quirk) THEN enh_quirk
                    ELSE Str(QUIRK_LABEL \o StrOf(it.quirk) \o << "." >>)
      lore_lines == wrap(lore_text)
      quirk_lines == wrap(quirk_text)
      mech_note == DictGet(it, "mechanical_note", None)
      mech_note_lines == IF Truthy(mech_note) THEN wrap(mech_note) ELSE Return(<< >>)
  IN  IF lore_lines.raised THEN lore_lines
      ELSE IF quirk_lines.raised THEN quirk_lines
      ELSE IF mech_note_lines.raised THEN mech_note_lines
      ELSE Return(
             << name_str, rarity_line, type_line, << >>, mech_line, attune_line, << >> >>
             \o << color(LORE_HEADER, << BRIGHT_MAGENTA, BOLD >>) >>
             \o lore_lines.value
             \o << << >> >>
             \o << color(ODDITIES_HEADER, << BRIGHT_MAGENTA, BOLD >>) >>
             \o quirk_lines.value
             \o (IF mech_note_lines.value # << >>
                 THEN << << >>, color(GM_NOTE_HEADER, << BRIGHT_MAGENTA, BOLD >>) >>
                        \o mech_note_lines.value
                 ELSE << >>)
             \o (IF enhancement_note # << >>
                 THEN << << >>, color(enhancement_note, << BRIGHT_BLACK, DIM >>) >>
                 ELSE << >>))

----------------------------------------------------------------------------
(* Framing (dnd_item_gen.py) *)

\* the characters [0-9;] of ANSI_ESCAPE_RE
ParamChars == { "0", "1", "2", "3", "4", "5", "6", "7", "8", "9", ";" }

\* the first index at or after i of s that holds no character of [0-9;]
RECURSIVE SkipParams(_, _)
SkipParams(s, i) ==
  IF i <= Len(s) /\ s[i] \in ParamChars THEN SkipParams(s, i + 1) ELSE i

\* ANSI_ESCAPE_RE.sub("", s) from index i on: ESC [ [0-9;]* m is dropped
RECURSIVE StripFrom(_, _)
StripFrom(s, i) ==
  IF i > Len(s) THEN << >>
  ELSE IF s[i] = "ESC" /\ i + 1 <= Len(s) /\ s[i + 1] = "["
       THEN LET j == SkipParams(s, i + 2)
            IN  IF j <= Len(s) /\ s[j] = "m"
                THEN StripFrom(s, j + 1)
                ELSE << s[i] >> \o StripFrom(s, i + 1)
       ELSE << s[i] >> \o StripFrom(s, i + 1)

strip_ansi(s) == StripFrom(s, 1)

\* c * n
Rep(c, n) == [ i \in 1 .. n |-> c ]

\* max(len(strip_ansi(line)) for line in lines), lines not empty
MaxVisible(lines) ==
  CHOOSE w \in { Len(strip_ansi(lines[i])) : i \in DOMAIN lines } :
    \A i \in DOMAIN lines : Len(strip_ansi(lines[i])) <= w

\* framed_block with the padding computed from len(line)
framed_block_raw_len(lines, border_color) ==
  IF lines = << >> THEN Raise("ValueError")
  ELSE LET width  == MaxVisible(lines)
           top    == color(<< "U+250C" >> \o Rep("U+2500", width + 2) \o << "U+2510" >>,
                           << border_color >>)
           bottom == color(<< "U+2514" >> \o Rep("U+2500", width + 2) \o << "U+2518" >>,
                           << border_color >>)
           row(l) == LET visible_width == Len(l)
                         pad == Rep(" ", width - visible_width)
                     IN  color(<< "U+2502", " " >>, << border_color >>) \o l \o pad
                           \o SP \o color(<< "U+2502" >>, << border_color >>)
       IN  Return(<< top >> \o [ i \in DOMAIN lines |-> row(lines[i]) ] \o << bottom >>)

\* framed_block of dnd_item_gen.py; max() of no line raises ValueError
framed_block(lines, border_color) ==
  IF lines = << >> THEN Raise("ValueError")
  ELSE LET width  == MaxVisible(lines)
           top    == color(<< "U+250C" >> \o Rep("U+2500", width + 2) \o << "U+2510" >>,
                           << border_color >>)
           bottom == color(<< "U+2514" >> \o Rep("U+2500", width + 2) \o << "U+2518" >>,
                           << border_color >>)
           row(l) == LET visible_width == Len(strip_ansi(l))
                         pad == Rep(" ", width - visible_width)
                     IN  color(<< "U+2502", " " >>, << border_color >>) \o l \o pad
                           \o SP \o color(<< "U+2502" >>, << border_color >>)
       IN  Return(<< top >> \o [ i \in DOMAIN lines |-> row(lines[i]) ] \o << bottom >>)

\* dnd_item_gen.py 276
LORE_HEADER_FRAMED ==
  <<"U+1F4DC"," ","L","o","r","e",":">>

\* render_item_card(item) of dnd_item_gen.py: the base card, framed
render_item_card_framed(it) ==
  LET rarity_str == StrOf(it.rarity_emoji) \o SP \o StrOf(it.rarity_name)
      rarity_str_colored == color(rarity_str, << it.rarity_color.v, BOLD >>)
      name_str == color(StrOf(it.name), << BRIGHT_YELLOW, BOLD >>)
      type_line == color(TYPE_LABEL, << BRIGHT_CYAN, BOLD >>)
                     \o StrOf(it.quality) \o SP \o StrOf(it.material) \o SP \o StrOf(it.type)
      rarity_line == color(RARITY_LABEL, << BRIGHT_CYAN, BOLD >>) \o rarity_str_colored
      mech_line == color(MECHANIC_LABEL, << BRIGHT_CYAN, BOLD >>) \o it.effect.v
      attune_line == color(ATTUNEMENT_LABEL, << BRIGHT_CYAN, BOLD >>) \o it.attune.v
      lore_lines == wrap(Str(FORGED_ORIGIN \o StrOf(it.origin) \o << ".", " " >>
                               \o ITS_MAGIC \o StrOf(it.enchantment) \o << "." >>))
      quirk_lines == wrap(Str(QUIRK_LABEL \o StrOf(it.quirk) \o << "." >>))
      body == << name_str, rarity_line, type_line, << >>, mech_line, attune_line, << >> >>
                \o << color(LORE_HEADER_FRAMED, << BRIGHT_MAGENTA, BOLD >>) >>
                \o lore_lines.value
                \o << << >> >>
                \o << color(ODDITIES_HEADER, << BRIGHT_MAGENTA, BOLD >>) >>
                \o quirk_lines.value
  IN  framed_block(body, BRIGHT_BLUE)

----------------------------------------------------------------------------
(* The state every specification starts from: the script not yet started *)

NoItem == [t |-> "NoItem"]

LoopInit ==
  /\ prog \in { "themed", "openai" }
  /\ client \in BOOLEAN
  /\ apiKey \in { None, Str(<< >>), Str(<< "s", "k" >>) }
  /\ pc = "import"
  /\ line = << >>
  /\ item = NoItem
  /\ note = << >>
  /\ imageNote = << >>
  /\ imgPath = None
  /\ steps = << >>
  /\ cards = 0
  /\ farewell = << >>
  /\ uncaught = ""
  /\ exc = ""

NoCall == fn = "" /\ args = << >> /\ ret = Return(None)

\* a pure-function run applies one function once (fn = "" before it); no
\* script is running
Detached ==
  /\ prog = "themed" /\ client = FALSE /\ apiKey = None /\ pc = "import"
  /\ line = << >> /\ item = NoItem /\ note = << >>
  /\ imageNote = << >> /\ imgPath = None /\ steps = << >> /\ cards = 0
  /\ farewell = << >> /\ uncaught = "" /\ exc = ""

----------------------------------------------------------------------------
(* Spec: the two scripts from their start on *)

LoopStates == { "idle", "generate", "enhance", "image", "render", "show" }
Rendering  == { "generate", "enhance", "image", "render", "show" }

\* the lines input() is explored over
InputLines ==
  { << >>, << "x" >>, << "5" >>, << " ", "a", "q" >>,
    << "q" >>, << "Q" >>, << " ", "q", "u", "i", "t" >>,
    << "\t", "Q", "u", "i", "t", " " >> }

\* user_input.strip().lower().startswith("q")
IsQuit(l) == StartsWith(Lower(Strip(l)), << "q" >>)

QuitFarewell(p) == IF p = "themed" THEN QuitFarewellThemed ELSE QuitFarewellOpenAI

\* try: main() / except KeyboardInterrupt of __main__: where an exception
\* that leaves main() takes the process
TopLevel(e) ==
  IF Catches("KeyboardInterrupt", e)
  THEN [pc |-> "terminated", farewell |-> InterruptFarewell, uncaught |-> ""]
  ELSE [pc |-> "crashed", farewell |-> << >>, uncaught |-> e]

\* the exception e leaves main()
Propagate(e) ==
  /\ pc' = TopLevel(e).pc
  /\ farewell' = TopLevel(e).farewell
  /\ uncaught' = TopLevel(e).uncaught
  /\ exc' = e

\* the draws a run of a script explores: one index for every table
LoopDraws ==
  { [ rarity |-> k, type |-> k, material |-> k, quality |-> k, enchantment |-> k,
      origin |-> k, quirk |-> k, attune |-> k, effect |-> k, named |-> b,
      epithet |-> k ] : k \in 1 .. MaxDraw, b \in BOOLEAN }

\* what the remote calls answer
Missing == [t |-> "missing"]

NameValues ==
  { Missing, None, Str(<< >>), Str(<< "B", "a", "n", "e" >>), Num(5) }

TextValues ==
  { Missing, None, Str(<< >>), Str(<< " " >>),
    Str(<< "O", "l", "d", " ", "t", "a", "l", "e", "." >>),
    List(<< Str(<< "a" >>), Str(<< "b" >>) >>) }

Entry(key, value) == IF value = Missing THEN << >> ELSE (key :> value)

ResponseDicts ==
  { Entry("name", n) @@ Entry("enhanced_lore", l) @@ Entry("enhanced_quirk", q)
      @@ Entry("mechanical_note", m) :
      n \in NameValues, l \in TextValues, q \in TextValues, m \in TextValues }

ErrorTexts == { << >>, << "t", "i", "m", "e", "o", "u", "t" >> }

RaiseOutcomes ==
  { [kind |-> "raises", exc |-> "APIError", msg |-> m] : m \in ErrorTexts }
    \cup { [kind |-> "raises", exc |-> "KeyboardInterrupt", msg |-> << >>] }

TextOutcomes ==
  RaiseOutcomes
    \cup { [kind |-> "content", content |-> c] :
             c \in { None, Str(<< "o", "o", "p", "s" >>), Json(List(<< >>)),
                     Json(Num(5)) } }
    \cup { [kind |-> "content", content |-> Json(Dict(d))] : d \in ResponseDicts }

ImageOutcomes ==
  RaiseOutcomes
    \cup { [kind |-> "data", b64 |-> b] :
             b \in { Str(<< "Q", "U", "J", "D" >>), Str(<< >>), None } }

SaveOutcomes == { "ok", "OSError", "ValueError", "KeyboardInterrupt" }

ShowOutcomes ==
  [ no_inline : BOOLEAN, img2sixel : BOOLEAN,
    resize : { "pillow_small", "pillow_resized", "convert_resized",
               "convert_failed", "no_tool", "interrupted" },
    run : { "ok", "OSError", "KeyboardInterrupt" } ]

Init == LoopInit /\ NoCall

\* the module body up to main(): the import of the tables, outside the try
Import ==
  /\ pc = "import"
  /\ LET r == FromDataTablesImport(ImportedNames(prog))
     IN  IF r.raised
         THEN pc' = "crashed" /\ uncaught' = r.exc /\ exc' = r.exc
         ELSE pc' = "idle" /\ uncaught' = "" /\ exc' = ""
  /\ UNCHANGED << prog, client, apiKey, line, item, note, imageNote, imgPath,
                  steps, cards, farewell, callVars >>

\* input() returns a line
ReadLine ==
  /\ pc = "idle"
  /\ \E l \in InputLines :
       /\ line' = l
       /\ IF IsQuit(l)
          THEN pc' = "terminated" /\ farewell' = QuitFarewell(prog)
          ELSE pc' = "generate" /\ farewell' = farewell
  /\ steps' = << "input" >>
  /\ cards' = 0
  /\ exc' = ""
  /\ UNCHANGED << prog, client, apiKey, item, note, imageNote, imgPath,
                  uncaught, callVars >>

\* input() raises EOFError: the input stream has ended
EndOfInput ==
  /\ pc = "idle"
  /\ Propagate("EOFError")
  /\ UNCHANGED << prog, client, apiKey, line, item, note, imageNote, imgPath,
                  steps, cards, callVars >>

\* KeyboardInterrupt is raised in main() itself, outside every inner try
Interrupt ==
  /\ pc \in LoopStates
  /\ Propagate("KeyboardInterrupt")
  /\ UNCHANGED << prog, client, apiKey, line, item, note, imageNote, imgPath,
                  steps, cards, callVars >>

\* base_item = generate_base_item()
GenerateBaseItem ==
  /\ pc = "generate"
  /\ prog = "openai"
  /\ \E d \in LoopDraws : item' = generate_base_item(d)
  /\ pc' = "enhance"
  /\ exc' = ""
  /\ UNCHANGED << prog, client, apiKey, line, note, imageNote, imgPath, steps,
                  cards, farewell, uncaught, callVars >>

\* enhanced_item, note = enhance_with_openai(base_item)
Enhance ==
  /\ pc = "enhance"
  /\ \E o \in TextOutcomes :
       LET r == enhance_with_openai(item, client, apiKey, o)
           t == EnhanceTry(item, o)
       IN  IF r.raised
           THEN /\ Propagate(r.exc)
                /\ steps' = Append(steps, "text_call")
                /\ UNCHANGED << item, note >>
           ELSE /\ item' = r.value.item
                /\ note' = r.value.note
                /\ steps' = IF r.value.called THEN Append(steps, "text_call") ELSE steps
                /\ pc' = "image"
                /\ exc' = IF r.value.called /\ t.raised THEN t.exc ELSE ""
                /\ UNCHANGED << farewell, uncaught >>
  /\ UNCHANGED << prog, client, apiKey, line, imageNote, imgPath, cards, callVars >>

\* generate_item_image, then save_image_to_file when there is image data
GenerateImage ==
  /\ pc = "image"
  /\ \E o \in ImageOutcomes, so \in SaveOutcomes :
       LET r == generate_item_image(item, client, apiKey, o)
       IN  IF r.raised
           THEN /\ Propagate(r.exc)
                /\ steps' = Append(steps, "image_call")
                /\ UNCHANGED << imageNote, imgPath >>
           ELSE LET called == IF r.value.called THEN << "image_call" >> ELSE << >>
                    failed == IF r.value.called /\ o.kind = "raises" THEN o.exc ELSE ""
                IN  IF Truthy(r.value.b64)
                    THEN LET p == save_image_to_file(r.value.b64,
                                                     DictGet(item, "name", None), so)
                         IN  /\ steps' = steps \o called \o << "save" >>
                             /\ IF p.raised
                                THEN /\ Propagate(p.exc)
                                     /\ UNCHANGED << imageNote, imgPath >>
                                ELSE /\ imgPath' = p.value
                                     /\ imageNote' =
                                          IF Truthy(p.value)
                                          THEN r.value.status \o SAVED_TO \o p.value.v
                                                 \o << "." >>
                                          ELSE r.value.status
                                     /\ pc' = "render"
                                     /\ exc' = IF so = "ok" THEN "" ELSE so
                                     /\ UNCHANGED << farewell, uncaught >>
                    ELSE /\ steps' = steps \o called
                         /\ imgPath' = None
                         /\ imageNote' = r.value.status
                         /\ pc' = "render"
                         /\ exc' = failed
                         /\ UNCHANGED << farewell, uncaught >>
  /\ UNCHANGED << prog, client, apiKey, line, item, note, cards, callVars >>

\* " ".join(p for p in [note, image_note] if p).strip()
CombinedNote(n, image_note) ==
  Strip(Join(SP, SelectSeq(<< n, image_note >>, LAMBDA p : p # << >>)))

\* card = render_item_card(...); slow_print(card)
Render ==
  /\ pc = "render"
  /\ LET r == render_item_card(item, CombinedNote(note, imageNote))
     IN  IF r.raised
         THEN /\ Propagate(r.exc)
              /\ UNCHANGED << steps, cards >>
         ELSE /\ cards' = cards + 1
              /\ steps' = Append(steps, "card")
              /\ pc' = "show"
              /\ exc' = ""
              /\ UNCHANGED << farewell, uncaught >>
  /\ UNCHANGED << prog, client, apiKey, line, item, note, imageNote, imgPath,
                  callVars >>

\* show_image_if_supported when an image was saved, the tip, and back to
\* input(): the item of the iteration is dropped
ShowImage ==
  /\ pc = "show"
  /\ IF Truthy(imgPath)
     THEN \E o \in ShowOutcomes :
            LET r == show_image_if_supported(imgPath, o)
            IN  IF r.raised
                THEN /\ Propagate(r.exc)
                     /\ UNCHANGED << steps, item, note, imageNote, imgPath >>
                ELSE /\ steps' = steps \o r.value.spawned
                     /\ pc' = "idle"
                     /\ exc' = IF ~o.no_inline /\ o.img2sixel /\ o.run # "ok"
                               THEN o.run ELSE ""
                     /\ item' = NoItem /\ note' = << >> /\ imageNote' = << >>
                     /\ imgPath' = None
                     /\ UNCHANGED << farewell, uncaught >>
     ELSE /\ pc' = "idle"
          /\ exc' = ""
          /\ item' = NoItem /\ note' = << >> /\ imageNote' = << >>
          /\ UNCHANGED << steps, imgPath, farewell, uncaught >>
  /\ UNCHANGED << prog, client, apiKey, line, cards, callVars >>

Next ==
  \/ Import
  \/ ReadLine
  \/ EndOfInput
  \/ Interrupt
  \/ GenerateBaseItem
  \/ Enhance
  \/ GenerateImage
  \/ Render
  \/ ShowImage

Spec == Init /\ [][Next]_vars

----------------------------------------------------------------------------
(* Properties of Spec *)

\* the line, trimmed, begins with q or Q
QuitLine(l) ==
  \E i \in DOMAIN l :
    /\ l[i] \in { "q", "Q" }
    /\ \A j \in 1 .. (i - 1) : l[j] \in Whitespace

BaseFields ==
  { "name", "rarity_name", "type", "material", "quality", "enchantment",
    "origin", "quirk", "attune", "effect" }

\* C1 (as claimed): a line that, trimmed, begins with q or Q takes the loop
\* from Idle to Terminated with the quit farewell and no card; any other line
\* takes it to Rendering, and the iteration displays exactly one card and
\* comes back to Idle (unless the user interrupts it).
C1_LineDecidesIteration ==
  [][ /\ (pc = "idle" /\ steps' = << "input" >>) =>
           IF QuitLine(line')
           THEN pc' = "terminated" /\ farewell' = QuitFarewell(prog) /\ cards' = 0
           ELSE pc' \in Rendering /\ cards' = 0
      /\ (pc \in Rendering /\ pc' \notin Rendering /\ exc' # "KeyboardInterrupt") =>
           (pc' = "idle" /\ cards' = 1)
    ]_vars

\* C2: a KeyboardInterrupt raised in any state of the loop takes the process
\* to Terminated with the interruption farewell, which is not the quit
\* farewell, and no uncaught exception; once Terminated nothing changes: no
\* further card is displayed.
C2_InterruptTerminates ==
  [][ /\ (pc \in LoopStates /\ exc' = "KeyboardInterrupt") =>
           /\ pc' = "terminated"
           /\ farewell' = InterruptFarewell
           /\ farewell' # QuitFarewell(prog)
           /\ uncaught' = ""
           /\ cards' = cards
      /\ (pc = "terminated" => (pc' = "terminated" /\ cards' = cards))
    ]_vars

\* the remote text call was interrupted, and the process said farewell
C2_Witness ==
  /\ pc = "terminated"
  /\ exc = "KeyboardInterrupt"
  /\ farewell = InterruptFarewell
  /\ steps = << "input", "text_call" >>

\* C3 (as claimed): whatever the optional paths do, the iteration of the
\* AI-enhanced loop displays the card: the process never ends with an
\* uncaught exception while the item of an iteration is in hand.
C3_CardAlwaysDisplayed ==
  ~(prog = "openai" /\ pc = "crashed" /\ item # NoItem)

\* C4: when the remote text call or the parsing of its response raises an
\* error, enhance_with_openai does not raise: the loop goes on to the image
\* step with every base field of the item as it was and a non-empty note.
C4_FailureKeepsBaseFields ==
  [][ (pc = "enhance" /\ exc' \notin { "", "KeyboardInterrupt" }) =>
        /\ pc' = "image"
        /\ uncaught' = ""
        /\ \A k \in BaseFields : k \in DOMAIN item' /\ item'[k] = item[k]
        /\ note' # << >>
    ]_vars

\* the remote call raised an error with an empty text, and the loop went on
C4_Witness ==
  /\ pc = "image"
  /\ exc = "APIError"
  /\ note = EnhanceFailedPrefix
  /\ item # NoItem

\* C5: while the client is unavailable or the credential missing or empty,
\* enhance_with_openai makes no remote call, raises nothing, and returns the
\* item as it was given with a non-empty note; generate_item_image makes no
\* remote call and returns no image with a non-empty status.
C5_NotConfiguredFallback ==
  [][ /\ (NotConfigured(client, apiKey) /\ pc = "enhance" /\ pc' # "enhance"
            /\ exc' # "KeyboardInterrupt") =>
           /\ pc' = "image"
           /\ exc' = ""
           /\ item' = item
           /\ note' # << >>
           /\ steps' = steps
      /\ (NotConfigured(client, apiKey) /\ pc = "image" /\ pc' # "image"
            /\ exc' # "KeyboardInterrupt") =>
           /\ pc' = "render"
           /\ exc' = ""
           /\ imgPath' = None
           /\ imageNote' # << >>
           /\ steps' = steps
    ]_vars

\* the client is there, the credential is empty, and the card is being
\* rendered from the base item and the two fallback notes
C5_Witness ==
  /\ client
  /\ apiKey = Str(<< >>)
  /\ pc = "render"
  /\ note = NotConfiguredNote
  /\ imageNote = ImageNotConfiguredNote
  /\ steps = << "input" >>

\* C10 (as claimed): the theme-aware program starts and assembles items
\* without any error: no table it reads is missing.
C10_AssemblyCannotFail ==
  ~(prog = "themed" /\ uncaught \in { "ImportError", "NameError" })

OptionalFields == { "enhanced_lore", "enhanced_quirk", "mechanical_note" }

\* C12 (as claimed): when the enhancement call succeeds with the JSON object
\* of the outcome o, the merged item has the returned name if that is a
\* non-empty text and the base name otherwise, and its rarity, type,
\* material, quality, enchantment, origin, quirk, attunement and effect are
\* those of the base item.
C12_MergedItemUsable ==
  [][ (pc = "enhance" /\ pc' = "image" /\ ~NotConfigured(client, apiKey)) =>
        \A o \in TextOutcomes :
          (~EnhanceTry(item, o).raised /\ item' = EnhanceTry(item, o).value.item) =>
            LET d == o.content.v.v
            IN  /\ item'.name = IF "name" \in DOMAIN d /\ IsStr(d.name) /\ d.name.v # << >>
                                THEN d.name
                                ELSE item.name
                /\ \A k \in BaseFields \ { "name" } : item'[k] = item[k]
    ]_vars

\* the steps of s happen in the order of the list order, each at most once
InOrder(s, order) ==
  \A i, j \in DOMAIN s :
    i < j => \E a, b \in DOMAIN order : a < b /\ order[a] = s[i] /\ order[b] = s[j]

\* C15 (as claimed): in an iteration the line is read, then the text service
\* and the image service are called, then the external image tools run, and
\* only then is the card written.
C15_ToolsBeforeCard ==
  InOrder(steps, << "input", "text_call", "image_call", "save", "convert",
                    "img2sixel", "card" >>)

\* C15 (amended): in an iteration the line is read, then the text service
\* and the image service are called and the image is saved, then the card is
\* written, and only then do the external image tools run, resize before
\* display; the steps of an iteration only ever grow by steps of that
\* iteration, and the next line is read only when the loop is back in Idle.
C15_CardBeforeTools ==
  [][ /\ InOrder(steps', << "input", "text_call", "image_call", "save", "card",
                            "convert", "img2sixel" >>)
      /\ steps' # steps =>
           \/ pc = "idle" /\ steps' = << "input" >>
           \/ /\ pc \in Rendering
              /\ Len(steps') > Len(steps)
              /\ SubSeq(steps', 1, Len(steps)) = steps
    ]_vars

\* an iteration that made every call, wrote its card, resized and displayed
\* the image and came back to Idle
C15_Witness ==
  /\ pc = "idle"
  /\ steps = << "input", "text_call", "image_call", "save", "card", "convert",
                "img2sixel" >>

\* C16 (as claimed): the item of an iteration carries an optional enhancement
\* field only if the enhancement call on it has succeeded.
C16_OptionalOnlyAfterSuccess ==
  (item # NoItem /\ OptionalFields \cap DOMAIN item # { }) => note = EnhancedNote

\* C17 (as claimed): whatever happens while the loop waits or renders, the
\* loop is left only for Terminated, a farewell printed; the process never
\* ends with an uncaught error.
C17_EndsOnlyWithFarewell ==
  [][ (pc \in LoopStates /\ pc' \notin LoopStates) =>
        (pc' = "terminated" /\ farewell' # << >> /\ uncaught' = "")
    ]_vars

----------------------------------------------------------------------------
(* SpecTheme: infer_theme and pick_mechanical_effect applied to the flavor *)
(* texts of the tables and to a few texts outside them                     *)

\* the example of the specification, an upper-cased text, an absent text
ExtraTexts ==
  { Str(<< "i","t"," ","h","u","m","s"," ","s","o","f","t","l","y" >>),
    Str(<< "F","R","O","S","T" >>),
    Str(<< >>),
    None }

MaterialArgs    == { Str(MATERIALS[i]) : i \in DOMAIN MATERIALS } \cup ExtraTexts
QualityArgs     == { Str(QUALITIES[i]) : i \in DOMAIN QUALITIES } \cup ExtraTexts
EnchantmentArgs == { Str(ENCHANTMENTS[i]) : i \in DOMAIN ENCHANTMENTS } \cup ExtraTexts

CallInferTheme ==
  /\ fn = ""
  /\ \E m \in MaterialArgs, q \in QualityArgs, e \in EnchantmentArgs :
    /\ fn' = "infer_theme"
    /\ args' = << m, q, e >>
    /\ ret' = Return(infer_theme(m, q, e))
    /\ UNCHANGED loopVars

CallPickMechanicalEffect ==
  /\ fn = ""
  /\ \E m \in MaterialArgs, q \in QualityArgs, e \in EnchantmentArgs,
        r \in Draws(MECHANICAL_EFFECTS) :
    /\ fn' = "pick_mechanical_effect"
    /\ args' = << m, q, e >>
    /\ ret' = pick_mechanical_effect(m, q, e, r)
    /\ UNCHANGED loopVars

ThemeNext == CallInferTheme \/ CallPickMechanicalEffect

ThemeInit == Detached /\ NoCall

SpecTheme == ThemeInit /\ [][ThemeNext]_vars

----------------------------------------------------------------------------
(* Properties of SpecTheme *)

ThemeOrder ==
  << "fire", "cold", "shadow", "storm", "fey", "radiant", "necrotic", "arcane" >>

ThemeWords(theme) ==
  CASE theme = "fire"     -> FIRE_WORDS
    [] theme = "cold"     -> COLD_WORDS
    [] theme = "shadow"   -> SHADOW_WORDS
    [] theme = "storm"    -> STORM_WORDS
    [] theme = "fey"      -> FEY_WORDS
    [] theme = "radiant"  -> RADIANT_WORDS
    [] theme = "necrotic" -> NECROTIC_WORDS
    [] theme = "arcane"   -> ARCANE_WORDS

\* the lower-cased concatenation of the three texts of a call
FlavorText(a) == Lower(Join(SP, << OrEmpty(a[1]), OrEmpty(a[2]), OrEmpty(a[3]) >>))

\* a keyword of the k-th theme occurs in text
ThemeMatches(k, text) ==
  \E w \in Range(ThemeWords(ThemeOrder[k])) : Contains(text, w)

SpecExampleArgs ==
  << Str(<< "i","r","o","n" >>),
     Str(<< "f","r","o","s","t","b","i","t","t","e","n" >>),
     Str(<< "i","t"," ","h","u","m","s"," ","s","o","f","t","l","y" >>) >>

\* C7: infer_theme returns the first theme, in the order fire, cold, shadow,
\* storm, fey, radiant, necrotic, arcane, one of whose keywords occurs in the
\* lower-cased concatenation of material, quality and enchantment, never a
\* later theme when an earlier one matches, and "generic" exactly when no
\* keyword of any theme occurs; iron / frostbitten / "it hums softly" is cold.
C7_InferThemeFirstMatch ==
  fn = "infer_theme" =>
    \E text \in { FlavorText(args) } :
      /\ ~ret.raised
      /\ \A k \in DOMAIN ThemeOrder :
           (ret.value = ThemeOrder[k]) <=>
             (ThemeMatches(k, text) /\ \A j \in 1 .. (k - 1) : ~ThemeMatches(j, text))
      /\ (ret.value = "generic") <=> (\A k \in DOMAIN ThemeOrder : ~ThemeMatches(k, text))
      /\ (args = SpecExampleArgs => ret.value = "cold")

\* a text with keywords of two themes (fire and cold) got the earlier theme
C7_Witness ==
  /\ fn = "infer_theme"
  /\ ThemeMatches(1, FlavorText(args))
  /\ ThemeMatches(2, FlavorText(args))
  /\ ret.value = "fire"

\* C8 (as claimed): pick_mechanical_effect never raises, and returns an
\* element of the inferred theme's subset when that subset is non-empty and an
\* element of MECHANICAL_EFFECTS when the subset is empty or absent.
C8_PickFromPoolOrGeneric ==
  fn = "pick_mechanical_effect" =>
    LET theme  == infer_theme(args[1], args[2], args[3])
        themed == LoadGlobal("THEMED_MECHANICAL_EFFECTS")
        pool   == IF themed.raised THEN << >> ELSE DictGet(themed.value, theme, << >>)
    IN  /\ ~ret.raised
        /\ ret.value \in (IF pool # << >> THEN Range(pool) ELSE Range(MECHANICAL_EFFECTS))

----------------------------------------------------------------------------
(* SpecGen: the two assemblers applied to every vector of draws *)

CallGenerateItem ==
  /\ fn = ""
  /\ \E d \in DrawVectors :
       /\ fn' = "generate_item"
       /\ args' = << d >>
       /\ ret' = generate_item(d)
       /\ UNCHANGED loopVars

CallGenerateBaseItem ==
  /\ fn = ""
  /\ \E d \in DrawVectors :
       /\ fn' = "generate_base_item"
       /\ args' = << d >>
       /\ ret' = Return(generate_base_item(d))
       /\ UNCHANGED loopVars

\* build_item_name applied to table entries, with every epithet of its list
CallBuildItemName ==
  /\ fn = ""
  /\ \E ra \in Draws(RARITIES), m \in Draws(MATERIALS), q \in Draws(QUALITIES),
        t \in Draws(ITEM_TYPES), named \in BOOLEAN, r \in DOMAIN EPITHETS :
       /\ fn' = "build_item_name"
       /\ args' = << RARITIES[ra], MATERIALS[m], QUALITIES[q], ITEM_TYPES[t], named, r >>
       /\ ret' = Return(build_item_name(RARITIES[ra], MATERIALS[m], QUALITIES[q],
                                        ITEM_TYPES[t], named, r))
       /\ UNCHANGED loopVars

GenNext == CallGenerateItem \/ CallGenerateBaseItem \/ CallBuildItemName

GenInit == Detached /\ NoCall

SpecGen == GenInit /\ [][GenNext]_vars

\* a non-empty str that is an entry of table
EntryOf(x, table) == IsStr(x) /\ x.v # << >> /\ x.v \in Range(table)

\* C6: every item an assembler returns has a rarity name, item type,
\* material, quality, enchantment, origin, quirk, attunement and mechanical
\* effect that are non-empty entries of their own tables, and a non-empty name.
C6_FieldsFromTables ==
  (fn \in { "generate_item", "generate_base_item" } /\ ~ret.raised) =>
    LET it == ret.value
    IN  /\ EntryOf(it.rarity_name, RARITIES)
        /\ EntryOf(it.type, ITEM_TYPES)
        /\ EntryOf(it.material, MATERIALS)
        /\ EntryOf(it.quality, QUALITIES)
        /\ EntryOf(it.enchantment, ENCHANTMENTS)
        /\ EntryOf(it.origin, ORIGINS)
        /\ EntryOf(it.quirk, QUIRKS)
        /\ EntryOf(it.attune, ATTUNEMENT_REQUIREMENTS)
        /\ EntryOf(it.effect, MECHANICAL_EFFECTS)
        /\ IsStr(it.name) /\ it.name.v # << >>

\* an item was returned whose every draw was the second entry of its table
C6_Witness ==
  /\ fn = "generate_base_item"
  /\ ~ret.raised
  /\ ret.value.quirk = Str(QUIRKS[2])
  /\ ret.value.effect = Str(MECHANICAL_EFFECTS[2])
  /\ ret.value.material = Str(MATERIALS[2])

\* the name n is "<base> of <epithet>": the epithet one of the list, the base
\* the quality and the item type with every word capitalised and nothing
\* else changed
NamedShape(n, quality, item_type) ==
  \E e \in Range(EPITHETS) :
    /\ Len(n) >= Len(e) + 4
    /\ LET base == SubSeq(n, 1, Len(n) - Len(e) - 4)
       IN  /\ SubSeq(n, Len(base) + 1, Len(n)) = << " ", "o", "f", " " >> \o e
           /\ Lower(base) = Lower(quality \o SP \o item_type)
           /\ \A i \in DOMAIN base :
                IsAlpha(base[i]) =>
                  (base[i] \in Range(UpperAlpha) <=> (i = 1 \/ ~IsAlpha(base[i - 1])))

\* the name n is "<rarity> <quality> <material> <item type>", inputs verbatim
DescriptiveShape(n, rarity_name, material, quality, item_type) ==
  n = rarity_name \o SP \o quality \o SP \o material \o SP \o item_type

\* C14: build_item_name returns a name of the named-artifact shape, its
\* epithet one of the twelve of the list, or of the descriptive shape
\* "<rarity> <quality> <material> <item type>"; it returns no other shape.
C14_NameShapes ==
  fn = "build_item_name" =>
    /\ ~ret.raised
    /\ Len(EPITHETS) = 12
    /\ IF args[5]
       THEN NamedShape(ret.value, args[3], args[4])
       ELSE DescriptiveShape(ret.value, args[1], args[2], args[3], args[4])

\* a named artifact with the last epithet of the list
C14_Witness ==
  /\ fn = "build_item_name"
  /\ args[5]
  /\ args[6] = 12
  /\ NamedShape(ret.value, args[3], args[4])

\* a descriptive name of four table entries
C14_DescriptiveReached ==
  /\ fn = "build_item_name"
  /\ ~args[5]
  /\ DescriptiveShape(ret.value, args[1], args[2], args[3], args[4])

----------------------------------------------------------------------------
(* SpecCard: the two renderers applied to the items the assemblers and the *)
(* enhancement hand them                                                    *)

\* render_item_card of dnd_item_gen_openai.py on an item as enhance_with_openai
\* returns it, with its note or with no note
CallRenderItemCard ==
  /\ fn = ""
  /\ \E d \in LoopDraws, cl \in BOOLEAN, o \in TextOutcomes, noted \in BOOLEAN :
       LET r == enhance_with_openai(generate_base_item(d), cl,
                                    Str(<< "s", "k" >>), o)
       IN  /\ ~r.raised
           /\ fn' = "render_item_card"
           /\ args' = << r.value.item, IF noted THEN r.value.note ELSE << >> >>
           /\ ret' = render_item_card(args'[1], args'[2])
           /\ UNCHANGED loopVars

\* render_item_card of dnd_item_gen.py on an assembled item
CallRenderItemCardFramed ==
  /\ fn = ""
  /\ \E d \in LoopDraws :
       /\ fn' = "render_item_card_framed"
       /\ args' = << generate_base_item(d) >>
       /\ ret' = render_item_card_framed(args'[1])
       /\ UNCHANGED loopVars

CardNext == CallRenderItemCard \/ CallRenderItemCardFramed

CardInit == Detached /\ NoCall

SpecCard == CardInit /\ [][CardNext]_vars

----------------------------------------------------------------------------
(* Properties of SpecCard *)

\* the lines ls cut at their blank lines
RECURSIVE SplitBlank(_)
SplitBlank(ls) ==
  IF ls = << >> THEN << << >> >>
  ELSE LET rest == SplitBlank(Tail(ls))
       IN  IF Head(ls) = << >> THEN << << >> >> \o rest
           ELSE << << Head(ls) >> \o rest[1] >> \o Tail(rest)

\* the sections of a card after its seven head lines
Sections(card) == SplitBlank(SubSeq(card, 8, Len(card)))

\* the field is present in the item and not empty
Present(it, k) == k \in DOMAIN it /\ it[k] \notin { None, Str(<< >>) }

SynthLore(it) ==
  Str(FORGED_ORIGIN \o it.origin.v \o << ".", " " >> \o ITS_MAGIC
        \o it.enchantment.v \o << "." >>)

SynthQuirk(it) == Str(QUIRK_LABEL \o it.quirk.v \o << "." >>)

\* C11 (as claimed): the lore block of the card is the wrapped enhanced_lore
\* when the item has a non-empty one and the wrapped sentence made of origin
\* and enchantment otherwise, the quirk block the wrapped enhanced_quirk or
\* the wrapped sentence made of the quirk, and a block is not empty when the
\* enhanced field is absent, null or empty.
C11_LoreQuirkBlocks ==
  fn = "render_item_card" =>
    /\ ~ret.raised
    /\ Len(Sections(ret.value)) >= 2
    /\ LET it == args[1]
           lore == Tail(Sections(ret.value)[1])
           quirk == Tail(Sections(ret.value)[2])
       IN  /\ lore = IF Present(it, "enhanced_lore")
                     THEN wrap(it.enhanced_lore).value
                     ELSE wrap(SynthLore(it)).value
           /\ quirk = IF Present(it, "enhanced_quirk")
                      THEN wrap(it.enhanced_quirk).value
                      ELSE wrap(SynthQuirk(it)).value
           /\ ~Present(it, "enhanced_lore") => lore # << >>
           /\ ~Present(it, "enhanced_quirk") => quirk # << >>

\* what a card shows: its lines without the colour sequences and, for a
\* framed card, without the frame and the padding
Visible(f, card) ==
  IF f = "render_item_card_framed"
  THEN [ i \in 1 .. (Len(card) - 2) |->
           LET row == strip_ansi(card[i + 1])
           IN  RStrip(SubSeq(row, 3, Len(row) - 2)) ]
  ELSE [ i \in DOMAIN card |-> strip_ansi(card[i]) ]

\* C13 (as claimed): a card is the name, the rarity line, the type line, a
\* blank, the mechanic line, the attunement line, a blank, the Lore header
\* and one or more lore lines, a blank, the Oddities header and one or more
\* quirk lines; then a blank, the GM Note header and the note lines exactly
\* when the item has a non-empty mechanical note; then a blank and the
\* enhancement note exactly when that note is not empty.
C13_CardOrder ==
  fn \in { "render_item_card", "render_item_card_framed" } =>
    /\ ~ret.raised
    /\ LET it == args[1]
           enote == IF fn = "render_item_card" THEN args[2] ELSE << >>
           v == Visible(fn, ret.value)
           g == Sections(v)
           gm == IF Present(it, "mechanical_note") THEN 1 ELSE 0
           en == IF enote # << >> THEN 1 ELSE 0
       IN  /\ Len(v) >= 12
           /\ v[1] = StrOf(it.name)
           /\ v[2] = RARITY_LABEL \o it.rarity_emoji.v \o SP \o it.rarity_name.v
           /\ v[3] = TYPE_LABEL \o it.quality.v \o SP \o it.material.v \o SP \o it.type.v
           /\ v[4] = << >>
           /\ v[5] = MECHANIC_LABEL \o it.effect.v
           /\ v[6] = ATTUNEMENT_LABEL \o it.attune.v
           /\ v[7] = << >>
           /\ Len(g) = 2 + gm + en
           /\ Len(g[1]) >= 2 /\ g[1][1] \in { LORE_HEADER, LORE_HEADER_FRAMED }
           /\ Len(g[2]) >= 2 /\ g[2][1] = ODDITIES_HEADER
           /\ gm = 1 => (Len(g[3]) >= 2 /\ g[3][1] = GM_NOTE_HEADER)
           /\ en = 1 => g[2 + gm + 1] = << enote >>

----------------------------------------------------------------------------
(* SpecFrame: framed_block applied to lists of plain and styled lines *)

\* lists of at most MaxLines lines are framed
MaxLines == 3

\* plain lines, styled lines, and lines holding pieces of an escape sequence
LinePool ==
  { << >>,
    << "a" >>,
    << "a", "b", "c" >>,
    color(<< "a" >>, << BOLD >>),
    color(<< "a", "b" >>, << BRIGHT_CYAN, BOLD >>),
    color(<< "T", ":", " " >>, << BRIGHT_CYAN, BOLD >>) \o << "x", "y" >>,
    << "ESC", "[", "1", ";", "3", "1", "m", "a", "b", "c", "d" >>,
    << "a", "ESC", "[" >>,
    << "ESC", "[", "3", "1" >>,
    << "[", "0", "m" >>,
    << "m" >>,
    << "ESC", "ESC", "[", "m" >> }

CallFramedBlock ==
  /\ fn = ""
  /\ \E n \in 0 .. MaxLines :
       \E ls \in [ 1 .. n -> LinePool ] :
         /\ fn' = "framed_block"
         /\ args' = ls
         /\ ret' = framed_block(ls, BRIGHT_BLUE)
         /\ UNCHANGED loopVars

FrameNext == CallFramedBlock

FrameInit == Detached /\ NoCall

SpecFrame == FrameInit /\ [][FrameNext]_vars

\* the columns the frame adds to the widest line: "| " and " |"
FrameMargin == 4

\* the frame of lines: borders and rows of one visible length, the widest
\* visible line plus the margin, each row holding its line between the borders
WellFramed(lines, framed) ==
  LET w == MaxVisible(lines)
  IN  /\ Len(framed) = Len(lines) + 2
      /\ \A i \in DOMAIN framed : Len(strip_ansi(framed[i])) = w + FrameMargin
      /\ strip_ansi(framed[1]) =
           << "U+250C" >> \o Rep("U+2500", w + 2) \o << "U+2510" >>
      /\ strip_ansi(framed[Len(framed)]) =
           << "U+2514" >> \o Rep("U+2500", w + 2) \o << "U+2518" >>
      /\ \A i \in DOMAIN lines :
           LET vis == strip_ansi(lines[i])
           IN  /\ strip_ansi(framed[i + 1]) =
                    << "U+2502", " " >> \o vis \o Rep(" ", w - Len(vis))
                      \o << " ", "U+2502" >>
               /\ \E k \in 1 .. Len(framed[i + 1]) :
                    SubSeq(framed[i + 1], k, k + Len(lines[i]) - 1) = lines[i]

====
